---------------------------- MODULE Spec2Model ----------------------------
(***************************************************************************)
(* EvoArena: the adaptive AMM pool (EvoPool), the agent governance layer   *)
(* (AgentController) and the epoch competition (EpochManager), modelled as *)
(* one state machine.  Every public function of the three contracts is an  *)
(* action; a transaction that reverts leaves the contracts' state as it    *)
(* was and is visible only in lastCall, the receipt of the last            *)
(* transaction.                                                            *)
(***************************************************************************)
EXTENDS Integers, Sequences, FiniteSets, TLC

VARIABLES
    now,        \* block.timestamp, its low 32 bits once it has passed 2^32
    era,        \* block.timestamp \div 2^32: the times the clock has passed a multiple of 2^32
    pool,       \* EvoPool storage (with the LP token's supply and balances)
    ctrl,       \* AgentController storage
    em,         \* EpochManager storage
    balances,   \* token and native balances held by the three contracts
    proposedAt, \* per agent, the timestamp of its latest AgentUpdateProposed event
    liquidityEvents, \* number of LiquidityAdded and LiquidityRemoved events so far
    twapPoint,  \* timestamp of the latest successful addLiquidity, removeLiquidity or swap
    callback,   \* calls the recipient of the last transaction's transfers made back into the paying contract
    timelock,   \* TimeLock storage: delay and the queuedTransactions mapping
    queuedAt,   \* per transaction hash, the timestamp of its latest TransactionQueued event
    breaker,    \* state of the agent's CircuitBreaker object
    checks,     \* number of CircuitBreaker.check calls that ran past the tripped test
    lastCall    \* receipt of the last transaction: op, sender, args, err, ret

vars == <<now, era, pool, ctrl, em, balances, proposedAt, liquidityEvents, twapPoint, callback,
          timelock, queuedAt, breaker, checks, lastCall>>

\* the TimeLock contract and the off-chain circuit breaker, which no transaction
\* of the pool, the controller or the epoch manager touches, and the high
\* word of the clock, which no transaction changes
offPool == <<timelock, queuedAt, breaker, checks, era>>

\* TimeLock.sol constants, in seconds
MIN_DELAY == 86400
MAX_DELAY == 604800
GRACE_PERIOD == 259200

\* the delay the deployment script passes to the TimeLock constructor
TIMELOCK_DELAY == 86400

\* TimeLock constructor: the delay must lie in [MIN_DELAY, MAX_DELAY]
DelayOutOfRange(delay) == delay < MIN_DELAY \/ delay > MAX_DELAY

\* no TransactionQueued event yet
NoQueueing == <<>>

-----------------------------------------------------------------------------
(* Bounds of the model.                                                    *)

MaxTime == 3
\* the times block.timestamp passes a multiple of 2^32
MaxEra == 1
MaxTrades == 1
MaxEpochs == 1
MaxUpdates == 2
MaxRegistrations == 2
MaxReserve == 6000
MaxLiquidityEvents == 2
MaxBond == 3
MaxParticipations == 1
SeedAmount == 2000
MaxPermits == 1
MaxCtrlBalance == 4

-----------------------------------------------------------------------------
(* Addresses.                                                              *)

ZERO == "0x0"
SINK == "0x1"
OWNER == "owner"
POOL == "EvoPool"
CTRL == "AgentController"
EM == "EpochManager"
TIMELOCK == "timelock"
SCORER == "scorer"
Agents == {"a1", "a2"}

\* the accounts that send transactions: the signers, and the timelock, which
\* sends the calls it executes
Users == {OWNER, SCORER, TIMELOCK} \cup Agents
Addresses == Users \cup {ZERO, CTRL, EM}

\* TimeLock constructor: the deployer owns it, nothing is queued
InitTimelock ==
    [delay |-> TIMELOCK_DELAY, owner |-> OWNER, queuedTransactions |-> {}, native |-> 0]

-----------------------------------------------------------------------------
(* Program constants.                                                      *)

MAX_FEE_BPS == 500
MAX_PROTOCOL_FEE_BPS == 2000
BETA_SCALE == 10000
MINIMUM_LIQUIDITY == 1000
BPS_DENOMINATOR == 10000
MAX_CURVE_MODE == 2

Normal == 0
Defensive == 1
VolatilityAdaptive == 2

-----------------------------------------------------------------------------
(* uint256 arithmetic beyond the checker's machine integers: little-endian *)
(* sequences of base-256 limbs.                                            *)

LIMB == 256
WORD_LIMBS == 32
Q112_LIMBS == 14
UINT32_LIMBS == 4
MILLION == 1000000

RECURSIVE BigFromNat(_)
BigFromNat(n) == IF n = 0 THEN <<>> ELSE <<n % LIMB>> \o BigFromNat(n \div LIMB)

RECURSIVE BigToNat(_)
BigToNat(s) == IF s = <<>> THEN 0 ELSE s[1] + LIMB * BigToNat(Tail(s))

\* without the leading (most significant) zero limbs
BigNorm(s) ==
    IF s = <<>> THEN <<>>
    ELSE LET nz == {i \in 1..Len(s) : s[i] # 0}
         IN  IF nz = {} THEN <<>>
             ELSE SubSeq(s, 1, CHOOSE i \in nz : \A j \in nz : j <= i)

\* The limb-by-limb loops below split their range in halves, which keeps the
\* nesting of the evaluation logarithmic in the number of limbs.

\* <<limbs lo..hi of s * m with the carry entering limb lo, carry out of limb hi>>
RECURSIVE BigMulCarry(_, _, _, _, _)
BigMulCarry(s, m, lo, hi, carry) ==
    IF lo > hi THEN <<<<>>, carry>>
    ELSE IF lo = hi
    THEN LET t == s[lo] * m + carry
         IN  <<<<t % LIMB>>, t \div LIMB>>
    ELSE LET mid == (lo + hi) \div 2
             low == BigMulCarry(s, m, lo, mid, carry)
             high == BigMulCarry(s, m, mid + 1, hi, low[2])
         IN  <<low[1] \o high[1], high[2]>>

\* the limbs of a <<limbs, carry out>> pair followed by those of the carry
BigJoin(r) == IF r[2] = 0 THEN BigNorm(r[1]) ELSE BigNorm(r[1] \o BigFromNat(r[2]))

BigMulSmall(s, m) ==
    IF s = <<>> THEN <<>> ELSE BigJoin(BigMulCarry(s, m, 1, Len(s), 0))

\* Long division by a machine integer runs from the most significant limb:
\* <<quotient limbs hi..lo of s by d (most significant first), remainder
\* leaving limb lo>>, with the remainder of the limbs above hi entering
RECURSIVE BigDivRem(_, _, _, _, _)
BigDivRem(s, d, lo, hi, rem) ==
    IF lo > hi THEN <<<<>>, rem>>
    ELSE IF lo = hi
    THEN LET cur == rem * LIMB + s[lo]
         IN  <<<<cur \div d>>, cur % d>>
    ELSE LET mid == (lo + hi) \div 2
             high == BigDivRem(s, d, mid + 1, hi, rem)
             low == BigDivRem(s, d, lo, mid, high[2])
         IN  <<high[1] \o low[1], low[2]>>

\* least significant limb first again
BigReverse(q) ==
    IF q = <<>> THEN <<>> ELSE BigNorm([i \in 1..Len(q) |-> q[Len(q) + 1 - i]])

BigDivSmall(s, d) ==
    IF s = <<>> THEN <<>> ELSE BigReverse(BigDivRem(s, d, 1, Len(s), 0)[1])

\* <<limbs lo..hi of a + b with the carry entering limb lo, carry out of limb hi>>
RECURSIVE BigAddCarry(_, _, _, _, _)
BigAddCarry(a, b, lo, hi, carry) ==
    IF lo > hi THEN <<<<>>, carry>>
    ELSE IF lo = hi
    THEN LET x == IF lo <= Len(a) THEN a[lo] ELSE 0
             y == IF lo <= Len(b) THEN b[lo] ELSE 0
             t == x + y + carry
         IN  <<<<t % LIMB>>, t \div LIMB>>
    ELSE LET mid == (lo + hi) \div 2
             low == BigAddCarry(a, b, lo, mid, carry)
             high == BigAddCarry(a, b, mid + 1, hi, low[2])
         IN  <<low[1] \o high[1], high[2]>>

BigAdd(a, b) ==
    IF a = <<>> THEN BigNorm(b)
    ELSE IF b = <<>> THEN BigNorm(a)
    ELSE BigJoin(BigAddCarry(a, b, 1, IF Len(a) > Len(b) THEN Len(a) ELSE Len(b), 0))

BigShl(s, k) == IF s = <<>> THEN <<>> ELSE [i \in 1..k |-> 0] \o s

RECURSIVE BigMul(_, _)
BigMul(a, b) ==
    IF a = <<>> THEN <<>>
    ELSE IF Len(a) = 1 THEN BigMulSmall(b, a[1])
    ELSE LET h == Len(a) \div 2
         IN  BigAdd(BigMul(SubSeq(a, 1, h), b),
                    BigShl(BigMul(SubSeq(a, h + 1, Len(a)), b), h))

\* x mod 2^256: the wrap of an unchecked uint256 operation
BigWrap(s) == BigNorm(SubSeq(s, 1, IF Len(s) < WORD_LIMBS THEN Len(s) ELSE WORD_LIMBS))

\* x * 1e18 and floor(x / 1e18), 1e18 = (10^6)^3
BigMulE18(s) == BigMulSmall(BigMulSmall(BigMulSmall(s, MILLION), MILLION), MILLION)
BigDivE18(s) == BigDivSmall(BigDivSmall(BigDivSmall(s, MILLION), MILLION), MILLION)

\* a <= b, both normalised: decided by the most significant limb that differs
BigLeq(a, b) ==
    IF Len(a) # Len(b) THEN Len(a) < Len(b)
    ELSE LET diff == {i \in 1..Len(a) : a[i] # b[i]}
         IN  \/ diff = {}
             \/ LET top == CHOOSE i \in diff : \A j \in diff : j <= i
                IN  a[top] < b[top]

\* <<limbs lo..hi of a - b (a >= b) with the borrow entering limb lo, borrow out>>
RECURSIVE BigSubBorrow(_, _, _, _, _)
BigSubBorrow(a, b, lo, hi, borrow) ==
    IF lo > hi THEN <<<<>>, borrow>>
    ELSE IF lo = hi
    THEN LET y == (IF lo <= Len(b) THEN b[lo] ELSE 0) + borrow
             under == a[lo] < y
         IN  <<<<IF under THEN a[lo] + LIMB - y ELSE a[lo] - y>>,
               IF under THEN 1 ELSE 0>>
    ELSE LET mid == (lo + hi) \div 2
             low == BigSubBorrow(a, b, lo, mid, borrow)
             high == BigSubBorrow(a, b, mid + 1, hi, low[2])
         IN  <<low[1] \o high[1], high[2]>>

BigSub(a, b) ==
    IF a = <<>> THEN <<>>
    ELSE IF b = <<>> THEN BigNorm(a)
    ELSE BigNorm(BigSubBorrow(a, b, 1, Len(a), 0)[1])

\* floor(num / den) when it lies in lo..hi: the largest q with q * den <= num
RECURSIVE BigQuot(_, _, _, _)
BigQuot(num, den, lo, hi) ==
    IF lo >= hi THEN lo
    ELSE IF Len(num) <= 3 /\ Len(den) <= 3 /\ den # <<>>
    THEN \* both operands are machine integers: divide directly
         LET q == BigToNat(num) \div BigToNat(den)
         IN  IF q > hi THEN hi ELSE IF q < lo THEN lo ELSE q
    ELSE LET mid == (lo + hi + 1) \div 2
         IN  IF BigLeq(BigMulSmall(den, mid), num)
             THEN BigQuot(num, den, mid, hi)
             ELSE BigQuot(num, den, lo, mid - 1)

\* whether a uint256 is at most the machine integer n
BigAtMost(s, n) == BigLeq(s, BigFromNat(n))

Min(a, b) == IF a < b THEN a ELSE b
AbsDiff(a, b) == IF a > b THEN a - b ELSE b - a

-----------------------------------------------------------------------------
(* JavaScript numbers: IEEE 754 binary64 with rounding to nearest, ties to  *)
(* even.  A number >= 0 is [mant, exp], of value mant * 2^exp, with          *)
(* 2^52 <= mant < 2^53 in limbs; zero is [mant |-> <<>>, exp |-> 0].  The     *)
(* circuit breaker produces no negative number, and on its inputs here no   *)
(* subnormal, infinite or NaN value.                                         *)

\* The element of a set of one element.  An operator below that uses an
\* operand or an intermediate result more than once takes it from such a set,
\* which makes it a value computed once.
Only(S) == CHOOSE x \in S : TRUE

\* the number of bits of a limb sequence
BigBitLen(s) ==
    IF s = <<>> THEN 0
    ELSE 8 * (Len(s) - 1) + (CHOOSE k \in 1..8 : 2^(k - 1) <= s[Len(s)] /\ s[Len(s)] < 2^k)

\* s * 2^k and floor(s / 2^k)
BigShlBits(s, k) == BigShl(BigMulSmall(s, 2^(k % 8)), k \div 8)

BigShrBits(s, k) ==
    IF k \div 8 >= Len(s) THEN <<>>
    ELSE BigDivSmall(SubSeq(s, k \div 8 + 1, Len(s)), 2^(k % 8))

\* Long division of limbs by limbs, from the most significant limb of s:
\* <<quotient limbs i..1 (most significant first), remainder>>, with the
\* remainder of the limbs above i entering
RECURSIVE BigDivLimbs(_, _, _, _)
BigDivLimbs(s, den, i, rem) ==
    IF i = 0 THEN <<<<>>, rem>>
    ELSE LET cur == BigAdd(BigShl(rem, 1), IF s[i] = 0 THEN <<>> ELSE <<s[i]>>)
             q == BigQuot(cur, den, 0, LIMB - 1)
             rest == BigDivLimbs(s, den, i - 1, BigSub(cur, BigMulSmall(den, q)))
         IN  <<<<q>> \o rest[1], rest[2]>>

\* <<floor(num / den), num mod den>>
BigDivMod(num, den) ==
    Only({<<BigReverse(r[1]), r[2]>> : r \in {BigDivLimbs(n, den, Len(n), <<>>) : n \in {num}}})

DoubleZero == [mant |-> <<>>, exp |-> 0]

\* the double nearest to n * 2^x, n in limbs: the top 53 bits of n, rounded
\* up when the bits below are more than half a unit, or exactly half with
\* the last kept bit odd
DoubleNearest(n, x) ==
    IF n = <<>> THEN DoubleZero
    ELSE IF BigBitLen(n) <= 53
    THEN [mant |-> BigShlBits(n, 53 - BigBitLen(n)), exp |-> x - (53 - BigBitLen(n))]
    ELSE LET cut == BigBitLen(n) - 53
             kept == BigShrBits(n, cut)
             below == BigSub(n, BigShlBits(kept, cut))
             half == BigShlBits(<<1>>, cut - 1)
             up == IF below = half THEN kept[1] % 2 = 1 ELSE ~BigLeq(below, half)
             m == IF up THEN BigAdd(kept, <<1>>) ELSE kept
         IN  IF BigBitLen(m) > 53 THEN [mant |-> BigShrBits(m, 1), exp |-> x + cut + 1]
             ELSE [mant |-> m, exp |-> x + cut]

DoubleRound(n, x) == Only({DoubleNearest(m, y) : m \in {n}, y \in {x}})

\* the shift that brings num / den to 56 bits or more
QuotientShift(num, den) ==
    IF BigBitLen(num) > 56 + BigBitLen(den) THEN 0
    ELSE 56 + BigBitLen(den) - BigBitLen(num)

\* the quotient and remainder qr of num * 2^k by den, as limbs: the quotient,
\* and one more bit that tells whether the division left a remainder
StickyQuotient(qr) == BigAdd(BigShlBits(qr[1], 1), IF qr[2] = <<>> THEN <<>> ELSE <<1>>)

\* the double nearest to (num / den) * 2^x, num # 0
DoubleShifted(num, den, x, k) ==
    DoubleRound(StickyQuotient(BigDivMod(BigShlBits(num, k), den)), x - k - 1)

\* the double nearest to (num / den) * 2^x
DoubleQuotient(num, den, x) ==
    IF num = <<>> THEN DoubleZero
    ELSE Only({DoubleShifted(num, den, x, k) : k \in {QuotientShift(num, den)}})

\* the value of the decimal literal, or of Number(n) for a bigint n (d = 1),
\* that is n / d
DoubleOf(n, d) ==
    Only({DoubleQuotient(num, den, 0) : num \in {BigFromNat(n)}, den \in {BigFromNat(d)}})

\* a / b, b # 0
DoubleDiv(a, b) ==
    Only({DoubleQuotient(u.mant, v.mant, u.exp - v.exp) : u \in {a}, v \in {b}})

\* a * b
DoubleMul(a, b) ==
    Only({DoubleRound(BigMul(u.mant, v.mant), u.exp + v.exp) : u \in {a}, v \in {b}})

\* the limbs of a in units of 2^x, x <= a.exp
DoubleUnits(a, x) == BigShlBits(a.mant, a.exp - x)

\* a + b, on values
DoubleSum(a, b, x) == DoubleRound(BigAdd(DoubleUnits(a, x), DoubleUnits(b, x)), x)

\* a + b
DoubleAdd(a, b) ==
    Only({IF u.mant = <<>> THEN v
          ELSE IF v.mant = <<>> THEN u
          ELSE DoubleSum(u, v, Min(u.exp, v.exp)) : u \in {a}, v \in {b}})

\* a > b
DoubleGt(a, b) ==
    Only({IF u.mant = <<>> THEN FALSE
          ELSE IF v.mant = <<>> THEN TRUE
          ELSE IF u.exp # v.exp THEN u.exp > v.exp
          ELSE ~BigLeq(u.mant, v.mant) : u \in {a}, v \in {b}})

\* a - b, a >= b, on values
DoubleDifference(a, b, x) == DoubleRound(BigSub(DoubleUnits(a, x), DoubleUnits(b, x)), x)

\* Math.abs(a - b)
DoubleAbsDiff(a, b) ==
    Only({IF u.mant = <<>> THEN v
          ELSE IF v.mant = <<>> THEN u
          ELSE IF DoubleGt(u, v) THEN DoubleDifference(u, v, Min(u.exp, v.exp))
          ELSE DoubleDifference(v, u, Min(u.exp, v.exp)) : u \in {a}, v \in {b}})

\* Math.max(a, b)
DoubleMax(a, b) == Only({IF DoubleGt(v, u) THEN v ELSE u : u \in {a}, v \in {b}})

\* CircuitBreaker.loadState without a state file: lastKnownPrice 0 and
\* baselineVolatility 0.01; of the stored alerts only their number is kept
InitBreaker ==
    [tripped |-> FALSE, reason |-> "", consecutiveFailures |-> 0,
     lastKnownPrice |-> DoubleZero, baselineVolatility |-> DoubleOf(1, 100), alerts |-> 0]

-----------------------------------------------------------------------------
(* EvoPool: pure functions.                                                *)

RECURSIVE SqrtLoop(_, _, _)
SqrtLoop(y, z, x) == IF x < z THEN SqrtLoop(y, x, (y \div x + x) \div 2) ELSE z

_sqrt(y) ==
    IF y > 3 THEN SqrtLoop(y, y, y \div 2 + 1)
    ELSE IF y # 0 THEN 1
    ELSE 0

\* Defensive: w = amountIn * 1e18 / reserveIn; wSquared = w * w / 1e18;
\* penalty = curveBeta * wSquared / 1e18
DefensivePenaltyOf(w, beta) ==
    IF w = <<>> THEN <<>>
    ELSE BigDivE18(BigMulSmall(BigDivE18(BigMul(w, w)), beta))

DefensivePenalty(amountIn, reserveIn, beta) ==
    DefensivePenaltyOf(BigDivSmall(BigMulE18(BigFromNat(amountIn)), reserveIn), beta)

\* VolatilityAdaptive: ratio = amountIn * BETA_SCALE / reserveIn;
\* penalty = curveBeta * ratio / (BETA_SCALE * BETA_SCALE)
AdaptivePenalty(amountIn, reserveIn, beta) ==
    LET ratio == (amountIn * BETA_SCALE) \div reserveIn
    IN  BigDivSmall(BigDivSmall(BigMulSmall(BigFromNat(ratio), beta),
                                BETA_SCALE), BETA_SCALE)

\* effectiveIn, a uint256
_applyCurve(p, amountIn, zeroForOne) ==
    IF p.curveMode = Normal THEN BigFromNat(amountIn)
    ELSE LET reserveIn == IF zeroForOne THEN p.reserve0 ELSE p.reserve1
             penalty == IF p.curveMode = Defensive
                        THEN DefensivePenalty(amountIn, reserveIn, p.curveBeta)
                        ELSE AdaptivePenalty(amountIn, reserveIn, p.curveBeta)
         IN  BigAdd(BigFromNat(amountIn),
                    BigDivSmall(BigMulSmall(penalty, amountIn), BETA_SCALE))

\* The quantities swap() derives from the actual input, in the code's order.
\* effectiveIn, feeAmount and protocolFee are uint256 values; amountOut is
\* below reserveOut.
\* amountOut = (reserveOut * amountInAfterFee) / (reserveIn + amountInAfterFee)
SwapAmountOut(reserveIn, reserveOut, amountInAfterFee) ==
    BigQuot(BigMulSmall(amountInAfterFee, reserveOut),
            BigAdd(BigFromNat(reserveIn), amountInAfterFee),
            0, reserveOut)

SwapMathFrom(p, zeroForOne, effectiveIn, feeAmount) ==
    [effectiveIn |-> effectiveIn,
     feeAmount |-> feeAmount,
     protocolFee |-> IF p.protocolFeeBps > 0 /\ feeAmount # <<>>
                     THEN BigDivSmall(BigMulSmall(feeAmount, p.protocolFeeBps),
                                      BPS_DENOMINATOR)
                     ELSE <<>>,
     amountOut |-> SwapAmountOut(IF zeroForOne THEN p.reserve0 ELSE p.reserve1,
                                 IF zeroForOne THEN p.reserve1 ELSE p.reserve0,
                                 BigSub(effectiveIn, feeAmount))]

\* feeAmount = (effectiveIn * feeBps) / BPS_DENOMINATOR
SwapMathFee(p, zeroForOne, effectiveIn) ==
    SwapMathFrom(p, zeroForOne, effectiveIn,
                 BigDivSmall(BigMulSmall(effectiveIn, p.feeBps), BPS_DENOMINATOR))

SwapMath(p, zeroForOne, actualIn) ==
    SwapMathFee(p, zeroForOne, _applyCurve(p, actualIn, zeroForOne))

\* uint32(block.timestamp % 2**32): the low four limbs
Uint32(t) == LET b == BigFromNat(t)
             IN  BigToNat(SubSeq(b, 1, Min(Len(b), UINT32_LIMBS)))

\* the unchecked uint32 subtraction a - b, which wraps: (a - b) mod 2^32, as
\* limbs, 2^32 - (b - a) when a < b
Uint32Sub(a, b) ==
    IF a >= b THEN BigFromNat(a - b)
    ELSE BigSub(BigShl(<<1>>, UINT32_LIMBS), BigFromNat(b - a))

\* floor(a * 2^112 / b) * dt, dt a uint32 in limbs
PriceTimesElapsed(a, b, dt) ==
    BigMul(dt, BigDivSmall(BigShl(BigFromNat(a), Q112_LIMBS), b))

\* _updateTWAP with the increment assigned instead of added
_updateTWAPOverwrite(p, t) ==
    LET blockTimestamp == Uint32(t)
        timeElapsed == Uint32Sub(blockTimestamp, p.blockTimestampLast)
    IN  IF timeElapsed # <<>> /\ p.reserve0 > 0 /\ p.reserve1 > 0
        THEN [p EXCEPT
                !.price0CumulativeLast =
                    BigWrap(PriceTimesElapsed(p.reserve1, p.reserve0, timeElapsed)),
                !.price1CumulativeLast =
                    BigWrap(PriceTimesElapsed(p.reserve0, p.reserve1, timeElapsed)),
                !.blockTimestampLast = blockTimestamp]
        ELSE p

_updateTWAP(p, t) ==
    LET blockTimestamp == Uint32(t)
        \* unchecked uint32 subtraction: it wraps when the truncated timestamp
        \* is below the stored one, which happens once block.timestamp has
        \* passed a multiple of 2^32
        timeElapsed == Uint32Sub(blockTimestamp, p.blockTimestampLast)
    IN  IF timeElapsed # <<>> /\ p.reserve0 > 0 /\ p.reserve1 > 0
        THEN [p EXCEPT
                !.price0CumulativeLast =
                    BigWrap(BigAdd(@, PriceTimesElapsed(p.reserve1, p.reserve0, timeElapsed))),
                !.price1CumulativeLast =
                    BigWrap(BigAdd(@, PriceTimesElapsed(p.reserve0, p.reserve1, timeElapsed))),
                !.blockTimestampLast = blockTimestamp]
        ELSE p

-----------------------------------------------------------------------------
(* Receipts.  A reverted transaction changes nothing but the receipt.      *)

OK == "ok"

Receipt(op, sender, args, err, ret) ==
    [op |-> op, sender |-> sender, args |-> args, err |-> err, ret |-> ret]

\* no recipient called back
NoCallback == <<>>

Reverted(op, sender, args, err) ==
    /\ lastCall' = Receipt(op, sender, args, err, 0)
    /\ callback' = NoCallback
    /\ UNCHANGED offPool
    /\ UNCHANGED <<now, pool, ctrl, em, balances, proposedAt, liquidityEvents, twapPoint>>

\* OpenZeppelin Ownable.onlyOwner of the contract whose storage is c
OnlyOwnerError(c, sender) ==
    IF sender # c.owner THEN "OwnableUnauthorizedAccount" ELSE OK

\* Ownable.transferOwnership: onlyOwner, and the zero address is refused
TransferOwnershipError(c, sender, newOwner) ==
    IF OnlyOwnerError(c, sender) # OK THEN OnlyOwnerError(c, sender)
    ELSE IF newOwner = ZERO THEN "OwnableInvalidOwner"
    ELSE OK

\* one block per unit of time
BlockNumber == now

-----------------------------------------------------------------------------
(* EvoPool: handlers.  XError is the first check of X that fails, in the    *)
(* code's order; XPool is the storage X leaves when none does.             *)

PoolAdminError(sender) == OnlyOwnerError(pool, sender)

SetProtocolFeeError(sender, _protocolFeeBps) ==
    IF OnlyOwnerError(pool, sender) # OK THEN OnlyOwnerError(pool, sender)
    ELSE IF _protocolFeeBps > MAX_PROTOCOL_FEE_BPS THEN "ProtocolFeeTooHigh"
    ELSE OK

\* collectProtocolFees forgetting to clear the token0 accrual
CollectProtocolFeesPoolKeeping0(p) ==
    [p EXCEPT !.protocolFeeAccum1 = 0]

CollectProtocolFeesPool(p) ==
    [p EXCEPT !.protocolFeeAccum0 = 0, !.protocolFeeAccum1 = 0]

\* addLiquidity minting for the larger of the two ratios
AddLiquiditySharesMax(p, actual0, actual1) ==
    IF p.totalSupply = 0
    THEN _sqrt(actual0 * actual1) - MINIMUM_LIQUIDITY
    ELSE IF (actual0 * p.totalSupply) \div p.reserve0
              > (actual1 * p.totalSupply) \div p.reserve1
         THEN (actual0 * p.totalSupply) \div p.reserve0
         ELSE (actual1 * p.totalSupply) \div p.reserve1

\* ---- addLiquidity
AddLiquidityShares(p, actual0, actual1) ==
    IF p.totalSupply = 0
    THEN _sqrt(actual0 * actual1) - MINIMUM_LIQUIDITY
    ELSE Min((actual0 * p.totalSupply) \div p.reserve0,
             (actual1 * p.totalSupply) \div p.reserve1)

AddLiquidityError(p, sender, amount0, amount1) ==
    IF p.paused THEN "PoolPaused"
    ELSE IF amount0 = 0 \/ amount1 = 0 THEN "ZeroAmount"
    ELSE IF p.totalSupply = 0 /\ _sqrt(amount0 * amount1) < MINIMUM_LIQUIDITY THEN "Panic"
    ELSE IF p.totalSupply # 0 /\ (p.reserve0 = 0 \/ p.reserve1 = 0) THEN "Panic"
    ELSE IF AddLiquidityShares(p, amount0, amount1) = 0 THEN "InsufficientLiquidity"
    ELSE OK

\* addLiquidity without the MINIMUM_LIQUIDITY mint to the sink
AddLiquidityPoolNoLock(p, sender, amount0, amount1, t) ==
    LET q == _updateTWAP(p, t)
        liquidity == AddLiquidityShares(q, amount0, amount1)
    IN  [q EXCEPT
           !.balanceOf = [@ EXCEPT ![sender] = @ + liquidity],
           !.totalSupply = @ + liquidity,
           !.reserve0 = @ + amount0,
           !.reserve1 = @ + amount1]

AddLiquidityPool(p, sender, amount0, amount1, t) ==
    LET q == _updateTWAP(p, t)
        liquidity == AddLiquidityShares(q, amount0, amount1)
        first == q.totalSupply = 0
        minted == [q.balanceOf EXCEPT
                     ![SINK] = IF first THEN @ + MINIMUM_LIQUIDITY ELSE @]
    IN  [q EXCEPT
           !.balanceOf = [minted EXCEPT ![sender] = @ + liquidity],
           !.totalSupply = @ + liquidity + (IF first THEN MINIMUM_LIQUIDITY ELSE 0),
           !.reserve0 = @ + amount0,
           !.reserve1 = @ + amount1]

\* addLiquidity() run on the storage p and the balances bal at time t: the
\* first check that fails, and what the call has written by then, in the
\* code's order: nothing before _updateTWAP; the TWAP update and the transfer
\* of both amounts before the liquidity is computed; the MINIMUM_LIQUIDITY
\* minted to the sink as well when a first deposit comes to no shares.
AddLiquidityRun(p, bal, sender, amount0, amount1, t) ==
    LET err == AddLiquidityError(p, sender, amount0, amount1)
        q == _updateTWAP(p, t)
        paidIn == [bal EXCEPT !.pool0 = @ + amount0, !.pool1 = @ + amount1]
    IN  CASE err \in {"PoolPaused", "ZeroAmount"} ->
                [err |-> err, ret |-> 0, pool |-> p, balances |-> bal]
          [] err = "Panic" ->
                [err |-> err, ret |-> 0, pool |-> q, balances |-> paidIn]
          [] err = "InsufficientLiquidity" ->
                [err |-> err, ret |-> 0,
                 pool |-> IF q.totalSupply = 0
                          THEN [q EXCEPT !.balanceOf[SINK] = @ + MINIMUM_LIQUIDITY,
                                         !.totalSupply = @ + MINIMUM_LIQUIDITY]
                          ELSE q,
                 balances |-> paidIn]
          [] OTHER ->
                [err |-> OK, ret |-> AddLiquidityShares(p, amount0, amount1),
                 pool |-> AddLiquidityPool(p, sender, amount0, amount1, t),
                 balances |-> paidIn]

\* ---- removeLiquidity
RemoveAmount0(p, liquidity) == (liquidity * p.reserve0) \div p.totalSupply
RemoveAmount1(p, liquidity) == (liquidity * p.reserve1) \div p.totalSupply

RemoveLiquidityError(p, sender, liquidity) ==
    IF liquidity = 0 THEN "ZeroAmount"
    ELSE IF p.balanceOf[sender] < liquidity THEN "InsufficientLiquidity"
    ELSE IF RemoveAmount0(p, liquidity) = 0 \/ RemoveAmount1(p, liquidity) = 0
         THEN "InsufficientLiquidity"
    ELSE OK

RemoveLiquidityPool(p, sender, liquidity, t) ==
    LET q == _updateTWAP(p, t)
    IN  [q EXCEPT
           !.balanceOf = [@ EXCEPT ![sender] = @ - liquidity],
           !.totalSupply = @ - liquidity,
           !.reserve0 = @ - RemoveAmount0(p, liquidity),
           !.reserve1 = @ - RemoveAmount1(p, liquidity)]

\* removeLiquidity() run on the storage p and the balances bal at time t:
\* the first check that fails, and what the call has written by then: the
\* TWAP update when an amount comes to zero, nothing before.
RemoveLiquidityRun(p, bal, sender, liquidity, t) ==
    LET err == RemoveLiquidityError(p, sender, liquidity)
    IN  IF err # OK
        THEN [err |-> err, ret |-> 0,
              pool |-> IF liquidity # 0 /\ p.balanceOf[sender] >= liquidity
                       THEN _updateTWAP(p, t) ELSE p,
              balances |-> bal]
        ELSE [err |-> OK,
              ret |-> <<RemoveAmount0(p, liquidity), RemoveAmount1(p, liquidity)>>,
              pool |-> RemoveLiquidityPool(p, sender, liquidity, t),
              balances |-> [bal EXCEPT !.pool0 = @ - RemoveAmount0(p, liquidity),
                                       !.pool1 = @ - RemoveAmount1(p, liquidity)]]

\* ---- swap
\* reserveIn -= protocolFee runs after reserveIn += actualIn and is checked
SwapError(p, zeroForOne, amountIn, minAmountOut) ==
    IF p.paused THEN "PoolPaused"
    ELSE IF amountIn = 0 THEN "ZeroAmount"
    ELSE IF p.reserve0 = 0 \/ p.reserve1 = 0 THEN "InsufficientLiquidity"
    ELSE LET m == SwapMath(p, zeroForOne, amountIn)
         IN  IF m.amountOut < minAmountOut THEN "InsufficientOutput"
             ELSE IF ~BigAtMost(m.protocolFee,
                                (IF zeroForOne THEN p.reserve0 ELSE p.reserve1) + amountIn)
                  THEN "Panic"
             ELSE OK

SwapPoolFeeFromOutput(p, zeroForOne, actualIn, t) ==
    LET q == _updateTWAP(p, t)
        m == SwapMath(q, zeroForOne, actualIn)
        protocolFee == BigToNat(m.protocolFee)
    IN  IF zeroForOne
        THEN [q EXCEPT
                !.reserve0 = @ + actualIn,
                !.reserve1 = @ - m.amountOut - protocolFee,
                !.protocolFeeAccum1 = @ + protocolFee,
                !.tradeCount = @ + 1,
                !.cumulativeVolume0 = @ + actualIn]
        ELSE [q EXCEPT
                !.reserve1 = @ + actualIn,
                !.reserve0 = @ - m.amountOut - protocolFee,
                !.protocolFeeAccum0 = @ + protocolFee,
                !.tradeCount = @ + 1,
                !.cumulativeVolume1 = @ + actualIn]

\* the storage after the swap, from the pool q left by _updateTWAP and the
\* quantities m derived from it
SwapPoolOf(q, zeroForOne, actualIn, m) ==
    LET protocolFee == BigToNat(m.protocolFee)
    IN  IF zeroForOne
        THEN [q EXCEPT
                !.reserve0 = @ + actualIn - protocolFee,
                !.reserve1 = @ - m.amountOut,
                !.protocolFeeAccum0 = @ + protocolFee,
                !.tradeCount = @ + 1,
                !.cumulativeVolume0 = @ + actualIn]
        ELSE [q EXCEPT
                !.reserve1 = @ + actualIn - protocolFee,
                !.reserve0 = @ - m.amountOut,
                !.protocolFeeAccum1 = @ + protocolFee,
                !.tradeCount = @ + 1,
                !.cumulativeVolume1 = @ + actualIn]

SwapPool(p, zeroForOne, actualIn, t) ==
    SwapPoolOf(_updateTWAP(p, t), zeroForOne, actualIn,
               SwapMath(_updateTWAP(p, t), zeroForOne, actualIn))

\* What swap() has written, to the pool's storage and to its token balances,
\* when it stops at the check that fails with err, or at its end (err = OK),
\* in the code's order: nothing before _updateTWAP; the TWAP update and the
\* transfer of the input before the InsufficientOutput check; the reserves
\* and the protocol-fee accrual as well before the checked subtraction of the
\* protocol fee; everything, the output paid, at the end.
SwapWritten(p, bal, zeroForOne, amountIn, t, err) ==
    LET q == _updateTWAP(p, t)
        m == SwapMath(q, zeroForOne, amountIn)
        paidIn == IF zeroForOne THEN [bal EXCEPT !.pool0 = @ + amountIn]
                  ELSE [bal EXCEPT !.pool1 = @ + amountIn]
        \* protocolFeeAccum += protocolFee, written before the subtraction
        \* that fails; a sum beyond the machine integers stays in limbs
        Accrued(accum) ==
            Only({IF Len(sum) <= 3 THEN BigToNat(sum) ELSE sum :
                     sum \in {BigAdd(BigFromNat(accum), m.protocolFee)}})
    IN  CASE err \in {"PoolPaused", "ZeroAmount", "InsufficientLiquidity"} ->
                [err |-> err, ret |-> 0, pool |-> p, balances |-> bal]
          [] err = "InsufficientOutput" ->
                [err |-> err, ret |-> 0, pool |-> q, balances |-> paidIn]
          [] err = "Panic" ->
                [err |-> err, ret |-> 0,
                 pool |-> IF zeroForOne
                          THEN [q EXCEPT !.reserve0 = @ + amountIn,
                                         !.reserve1 = @ - m.amountOut,
                                         !.protocolFeeAccum0 = Accrued(@)]
                          ELSE [q EXCEPT !.reserve1 = @ + amountIn,
                                         !.reserve0 = @ - m.amountOut,
                                         !.protocolFeeAccum1 = Accrued(@)],
                 balances |-> paidIn]
          [] OTHER ->
                [err |-> OK, ret |-> m.amountOut,
                 pool |-> SwapPool(p, zeroForOne, amountIn, t),
                 balances |-> IF zeroForOne THEN [paidIn EXCEPT !.pool1 = @ - m.amountOut]
                              ELSE [paidIn EXCEPT !.pool0 = @ - m.amountOut]]

\* swap() returning 0 where the output is below minAmountOut, instead of
\* reverting: the call is accepted and keeps what it has written
SwapRunReturning(p, bal, zeroForOne, amountIn, minAmountOut, t) ==
    LET err == SwapError(p, zeroForOne, amountIn, minAmountOut)
    IN  [SwapWritten(p, bal, zeroForOne, amountIn, t, err) EXCEPT
            !.err = IF err = "InsufficientOutput" THEN OK ELSE @]

\* swap() run on the storage p and the balances bal at time t: the first
\* check that fails, and what the call has written by then
SwapRun(p, bal, zeroForOne, amountIn, minAmountOut, t) ==
    SwapWritten(p, bal, zeroForOne, amountIn, t,
                SwapError(p, zeroForOne, amountIn, minAmountOut))

\* ---- updateParameters
\* _curveMode is an enum in calldata: the ABI decoder reverts on a value
\* outside the enum before the modifier runs.
UpdateParametersErrorAnyCaller(p, sender, _feeBps, _curveMode) ==
    IF _curveMode > MAX_CURVE_MODE THEN "revert"
    ELSE IF _feeBps > MAX_FEE_BPS THEN "FeeTooHigh"
    ELSE OK

UpdateParametersError(p, sender, _feeBps, _curveMode) ==
    IF _curveMode > MAX_CURVE_MODE THEN "revert"
    ELSE IF sender # p.controller /\ sender # p.epochManager THEN "OnlyController"
    ELSE IF _feeBps > MAX_FEE_BPS THEN "FeeTooHigh"
    ELSE IF _curveMode > MAX_CURVE_MODE THEN "InvalidCurveMode"
    ELSE OK

UpdateParametersPool(p, _feeBps, _curveBeta, _curveMode) ==
    [p EXCEPT !.feeBps = _feeBps,
              !.curveBeta = _curveBeta,
              !.curveMode = _curveMode,
              !.parameterUpdateBlock = BlockNumber]

-----------------------------------------------------------------------------
(* AgentController: handlers.                                              *)

BOND_TOKEN == "bondToken"

NoAgent ==
    [agentAddress |-> ZERO, bondAmount |-> 0, tokenBondAmount |-> 0,
     registeredAt |-> 0, lastUpdateTime |-> 0, active |-> FALSE]

\* registerAgent without the AlreadyRegistered check
RegisterAgentErrorRepeatable(c, sender, value) ==
    IF c.paused THEN "Paused"
    ELSE IF value < c.minBond THEN "BondTooLow"
    ELSE OK

RegisterAgentError(c, sender, value) ==
    IF c.paused THEN "Paused"
    ELSE IF c.agents[sender].active THEN "AlreadyRegistered"
    ELSE IF value < c.minBond THEN "BondTooLow"
    ELSE OK

RegisterAgentCtrl(c, sender, value, t) ==
    [c EXCEPT
       !.agents[sender] =
           [agentAddress |-> sender, bondAmount |-> value, tokenBondAmount |-> 0,
            registeredAt |-> t, lastUpdateTime |-> 0, active |-> TRUE],
       !.agentList = Append(@, sender)]

OnlyRegisteredError(c, sender) ==
    IF c.paused THEN "Paused"
    ELSE IF ~c.agents[sender].active THEN "NotRegistered"
    ELSE OK

\* the bond goes back by msg.sender.call{value: bondToReturn}, which fails
\* when the controller holds less
DeregisterAgentError(c, sender, nativeBalance) ==
    IF OnlyRegisteredError(c, sender) # OK THEN OnlyRegisteredError(c, sender)
    ELSE IF nativeBalance < c.agents[sender].bondAmount THEN "TransferFailed"
    ELSE OK

DeregisterAgentCtrl(c, sender) ==
    [c EXCEPT !.agents[sender].active = FALSE,
              !.agents[sender].bondAmount = 0]

TopUpBondError(c, sender, value) ==
    IF OnlyRegisteredError(c, sender) # OK THEN OnlyRegisteredError(c, sender)
    ELSE IF value = 0 THEN "ZeroAmount"
    ELSE OK

\* topUpBond crediting twice what it received
TopUpBondCtrlTwice(c, sender, value) ==
    [c EXCEPT !.agents[sender].bondAmount = @ + 2 * value]

TopUpBondCtrl(c, sender, value) ==
    [c EXCEPT !.agents[sender].bondAmount = @ + value]

DepositTokenBondError(c, sender, amount) ==
    IF OnlyRegisteredError(c, sender) # OK THEN OnlyRegisteredError(c, sender)
    ELSE IF amount = 0 THEN "ZeroAmount"
    ELSE IF c.bondToken = ZERO THEN "ZeroAmount"
    ELSE OK

DepositTokenBondCtrl(c, sender, amount) ==
    [c EXCEPT !.agents[sender].tokenBondAmount = @ + amount]

\* SafeERC20.safeTransfer reverts when the token address holds no code or
\* the controller holds fewer tokens than it sends.
WithdrawTokenBondError(c, sender, tokenBalance) ==
    IF c.agents[sender].active THEN "StillActive"
    ELSE IF c.agents[sender].tokenBondAmount = 0 THEN "ZeroAmount"
    ELSE IF c.bondToken = ZERO THEN "revert"
    ELSE IF tokenBalance < c.agents[sender].tokenBondAmount THEN "revert"
    ELSE OK

\* withdrawTokenBond that leaves the recorded token bond in place
WithdrawTokenBondCtrlKeep(c, sender) == c

WithdrawTokenBondCtrl(c, sender) ==
    [c EXCEPT !.agents[sender].tokenBondAmount = 0]

\* ---- submitParameterUpdate
CooldownActiveInclusive(c, sender, t) ==
    /\ c.agents[sender].lastUpdateTime # 0
    /\ t <= c.agents[sender].lastUpdateTime + c.cooldownSeconds

CooldownActive(c, sender, t) ==
    /\ c.agents[sender].lastUpdateTime # 0
    /\ t < c.agents[sender].lastUpdateTime + c.cooldownSeconds

FeeDeltaExceedsUpward(c, p, newFeeBps) == newFeeBps > p.feeBps + c.maxFeeDelta

FeeDeltaExceeds(c, p, newFeeBps) == AbsDiff(newFeeBps, p.feeBps) > c.maxFeeDelta

BetaDeltaExceeds(c, p, newCurveBeta) == AbsDiff(newCurveBeta, p.curveBeta) > c.maxBetaDelta

\* submitParameterUpdate that tests the absolute caps before the cooldown
SubmitParameterUpdateErrorCapsFirst(c, p, sender, newFeeBps, newCurveBeta, newCurveMode, t) ==
    IF OnlyRegisteredError(c, sender) # OK THEN OnlyRegisteredError(c, sender)
    ELSE IF newFeeBps > MAX_FEE_BPS THEN "FeeTooHigh"
    ELSE IF newCurveMode > MAX_CURVE_MODE THEN "InvalidCurveMode"
    ELSE IF CooldownActive(c, sender, t) THEN "CooldownActive"
    ELSE IF FeeDeltaExceeds(c, p, newFeeBps) THEN "DeltaExceedsLimit"
    ELSE IF BetaDeltaExceeds(c, p, newCurveBeta) THEN "DeltaExceedsLimit"
    ELSE UpdateParametersError(p, CTRL, newFeeBps, newCurveMode)

SubmitParameterUpdateError(c, p, sender, newFeeBps, newCurveBeta, newCurveMode, t) ==
    IF OnlyRegisteredError(c, sender) # OK THEN OnlyRegisteredError(c, sender)
    ELSE IF CooldownActive(c, sender, t) THEN "CooldownActive"
    ELSE IF newFeeBps > MAX_FEE_BPS THEN "FeeTooHigh"
    ELSE IF newCurveMode > MAX_CURVE_MODE THEN "InvalidCurveMode"
    ELSE IF FeeDeltaExceeds(c, p, newFeeBps) THEN "DeltaExceedsLimit"
    ELSE IF BetaDeltaExceeds(c, p, newCurveBeta) THEN "DeltaExceedsLimit"
    ELSE UpdateParametersError(p, CTRL, newFeeBps, newCurveMode)

SubmitParameterUpdateCtrl(c, sender, t) ==
    [c EXCEPT !.agents[sender].lastUpdateTime = t,
              !.updateCount[sender] = @ + 1]

\* ---- slashAgent
SlashAgentError(c, sender, agent, amount, nativeBalance) ==
    IF OnlyOwnerError(c, sender) # OK THEN OnlyOwnerError(c, sender)
    ELSE IF ~c.agents[agent].active THEN "NotRegistered"
    ELSE IF amount > c.agents[agent].bondAmount THEN "InsufficientSlashAmount"
    ELSE IF nativeBalance < amount THEN "TransferFailed"
    ELSE OK

\* slashAgent that expels an agent whose bond falls below the minimum
SlashAgentCtrlDeactivating(c, agent, amount) ==
    [c EXCEPT !.agents[agent].bondAmount = @ - amount,
              !.agents[agent].active =
                  IF c.agents[agent].bondAmount - amount < c.minBond THEN FALSE ELSE @]

SlashAgentCtrl(c, agent, amount) ==
    [c EXCEPT !.agents[agent].bondAmount = @ - amount]

-----------------------------------------------------------------------------
(* EpochManager: handlers.                                                 *)

EpochIds == 0..(MaxEpochs + 2)

NoEpoch ==
    [epochId |-> 0, startTime |-> 0, endTime |-> 0, winner |-> ZERO,
     winnerScore |-> 0, proposalCount |-> 0, finalized |-> FALSE]

NewEpoch(id, start, end) ==
    [epochId |-> id, startTime |-> start, endTime |-> end, winner |-> ZERO,
     winnerScore |-> 0, proposalCount |-> 0, finalized |-> FALSE]

\* _startNextEpoch re-opening the current epoch instead of starting the next
_startNextEpochInPlace(e, t) ==
    [e EXCEPT !.epochs[e.currentEpochId] =
                  NewEpoch(e.currentEpochId, t, t + e.epochDuration),
              !.epochStartTime = t]

_startNextEpoch(e, t) ==
    [e EXCEPT !.currentEpochId = @ + 1,
              !.epochs[e.currentEpochId + 1] =
                  NewEpoch(e.currentEpochId + 1, t, t + e.epochDuration),
              !.epochStartTime = t]

NeedsAdvanceNever(e, t) ==
    LET ep == e.epochs[e.currentEpochId]
    IN  t >= ep.endTime /\ ep.finalized /\ ep.proposalCount = 0

NeedsAdvance(e, t) ==
    LET ep == e.epochs[e.currentEpochId]
    IN  t >= ep.endTime /\ ~ep.finalized /\ ep.proposalCount = 0

_checkAndAdvanceEpochNoMark(e, t) ==
    IF NeedsAdvance(e, t) THEN _startNextEpoch(e, t) ELSE e

_checkAndAdvanceEpoch(e, t) ==
    IF NeedsAdvance(e, t)
    THEN _startNextEpoch([e EXCEPT !.epochs[e.currentEpochId].finalized = TRUE], t)
    ELSE e

\* ---- submitProposal
SubmitProposalErrorNoBounds(e, c, sender, feeBps, curveMode_, t) ==
    LET e1 == _checkAndAdvanceEpoch(e, t)
        eid == e1.currentEpochId
    IN  IF t >= e1.epochs[eid].endTime THEN "EpochNotActive"
        ELSE IF sender \in e1.hasProposed[eid] THEN "AlreadyProposed"
        ELSE IF ~c.agents[sender].active THEN "AgentNotRegistered"
        ELSE OK

SubmitProposalErrorAnyAgent(e, c, sender, feeBps, curveMode_, t) ==
    LET e1 == _checkAndAdvanceEpoch(e, t)
        eid == e1.currentEpochId
    IN  IF t >= e1.epochs[eid].endTime THEN "EpochNotActive"
        ELSE IF sender \in e1.hasProposed[eid] THEN "AlreadyProposed"
        ELSE IF feeBps > MAX_FEE_BPS THEN "revert"
        ELSE IF curveMode_ > MAX_CURVE_MODE THEN "revert"
        ELSE OK

SubmitProposalError(e, c, sender, feeBps, curveMode_, t) ==
    LET e1 == _checkAndAdvanceEpoch(e, t)
        eid == e1.currentEpochId
    IN  IF t >= e1.epochs[eid].endTime THEN "EpochNotActive"
        ELSE IF sender \in e1.hasProposed[eid] THEN "AlreadyProposed"
        ELSE IF ~c.agents[sender].active THEN "AgentNotRegistered"
        ELSE IF feeBps > MAX_FEE_BPS THEN "revert"
        ELSE IF curveMode_ > MAX_CURVE_MODE THEN "revert"
        ELSE OK

SubmitProposalEmOverwrite(e, sender, feeBps, curveBeta, curveMode_, t) ==
    LET e1 == _checkAndAdvanceEpoch(e, t)
        eid == e1.currentEpochId
        prop == [agent |-> sender, feeBps |-> feeBps, curveBeta |-> curveBeta,
                 curveMode |-> curveMode_, timestamp |-> t]
    IN  [e1 EXCEPT !.epochProposals[eid] = <<prop>>,
                   !.hasProposed[eid] = @ \cup {sender},
                   !.epochAgents[eid] = Append(@, sender),
                   !.epochs[eid].proposalCount = @ + 1,
                   !.epochsParticipated[sender] = @ + 1]

SubmitProposalEm(e, sender, feeBps, curveBeta, curveMode_, t) ==
    LET e1 == _checkAndAdvanceEpoch(e, t)
        eid == e1.currentEpochId
        prop == [agent |-> sender, feeBps |-> feeBps, curveBeta |-> curveBeta,
                 curveMode |-> curveMode_, timestamp |-> t]
    IN  [e1 EXCEPT !.epochProposals[eid] = Append(@, prop),
                   !.hasProposed[eid] = @ \cup {sender},
                   !.epochAgents[eid] = Append(@, sender),
                   !.epochs[eid].proposalCount = @ + 1,
                   !.epochsParticipated[sender] = @ + 1]

\* ---- finalizeEpoch
\* the scoring loop: <<bestAgent, bestScore>> after entries i..Len(agents)
RECURSIVE BestFrom(_, _, _, _, _)
BestFrom(agents, scores, i, bestAgent, bestScore) ==
    IF i > Len(agents) THEN <<bestAgent, bestScore>>
    ELSE IF scores[i] > bestScore
         THEN BestFrom(agents, scores, i + 1, agents[i], scores[i])
         ELSE BestFrom(agents, scores, i + 1, bestAgent, bestScore)

Best(agents, scores) == BestFrom(agents, scores, 1, ZERO, 0)

RECURSIVE RecordScores(_, _, _, _)
RecordScores(f, agents, scores, i) ==
    IF i > Len(agents) THEN f
    ELSE RecordScores([f EXCEPT ![agents[i]] = scores[i]], agents, scores, i + 1)

RECURSIVE AddScores(_, _, _, _)
AddScores(f, agents, scores, i) ==
    IF i > Len(agents) THEN f
    ELSE AddScores([f EXCEPT ![agents[i]] = @ + scores[i]], agents, scores, i + 1)

\* index of the first proposal of `agent`, 0 when it has none
RECURSIVE FindProposal(_, _, _)
FindProposal(proposals, agent, i) ==
    IF i > Len(proposals) THEN 0
    ELSE IF proposals[i].agent = agent THEN i
    ELSE FindProposal(proposals, agent, i + 1)

FinalizeEpochErrorRepeatable(e, p, sender, epochId, agents, scores) ==
    LET ep == e.epochs[epochId]
    IN  IF sender # e.scorer THEN "NotScorer"
        ELSE IF ep.proposalCount = 0 THEN "NoProposals"
        ELSE IF Len(agents) # Len(scores) THEN "InvalidScoreCount"
        ELSE IF Len(agents) # ep.proposalCount THEN "InvalidScoreCount"
        ELSE IF FindProposal(e.epochProposals[epochId], Best(agents, scores)[1], 1) # 0
             THEN LET k == FindProposal(e.epochProposals[epochId], Best(agents, scores)[1], 1)
                  IN  UpdateParametersError(p, EM, e.epochProposals[epochId][k].feeBps,
                                            e.epochProposals[epochId][k].curveMode)
        ELSE OK

FinalizeEpochError(e, p, sender, epochId, agents, scores) ==
    LET ep == e.epochs[epochId]
        k == FindProposal(e.epochProposals[epochId], Best(agents, scores)[1], 1)
    IN  IF sender # e.scorer THEN "NotScorer"
        ELSE IF ep.finalized THEN "AlreadyFinalized"
        ELSE IF ep.proposalCount = 0 THEN "NoProposals"
        ELSE IF Len(agents) # Len(scores) THEN "InvalidScoreCount"
        ELSE IF Len(agents) # ep.proposalCount THEN "InvalidScoreCount"
        ELSE IF k # 0
             THEN UpdateParametersError(p, EM, e.epochProposals[epochId][k].feeBps,
                                        e.epochProposals[epochId][k].curveMode)
        ELSE OK

FinalizeEpochEmNoAdvance(e, epochId, agents, scores, t) ==
    LET best == Best(agents, scores)
    IN  [e EXCEPT
           !.agentScores[epochId] = RecordScores(@, agents, scores, 1),
           !.totalScore = AddScores(@, agents, scores, 1),
           !.epochs[epochId].winner = best[1],
           !.epochs[epochId].winnerScore = best[2],
           !.epochs[epochId].finalized = TRUE,
           !.epochsWon[best[1]] = @ + 1]

FinalizeEpochEm(e, epochId, agents, scores, t) ==
    LET best == Best(agents, scores)
        e1 == [e EXCEPT
                 !.agentScores[epochId] = RecordScores(@, agents, scores, 1),
                 !.totalScore = AddScores(@, agents, scores, 1),
                 !.epochs[epochId].winner = best[1],
                 !.epochs[epochId].winnerScore = best[2],
                 !.epochs[epochId].finalized = TRUE,
                 !.epochsWon[best[1]] = @ + 1]
    IN  _startNextEpoch(e1, t)

FinalizeEpochPool(e, p, epochId, agents, scores) ==
    LET k == FindProposal(e.epochProposals[epochId], Best(agents, scores)[1], 1)
    IN  IF k = 0 THEN p
        ELSE UpdateParametersPool(p, e.epochProposals[epochId][k].feeBps,
                                  e.epochProposals[epochId][k].curveBeta,
                                  e.epochProposals[epochId][k].curveMode)

\* ---- claimReward
ClaimRewardErrorRepeatable(e, sender, epochId, nativeBalance) ==
    LET ep == e.epochs[epochId]
    IN  IF ~ep.finalized THEN "EpochNotActive"
        ELSE IF ep.winner # sender THEN "NothingToClaim"
        ELSE IF e.epochRewardAmount = 0 THEN "NothingToClaim"
        ELSE IF nativeBalance < e.epochRewardAmount THEN "TransferFailed"
        ELSE OK

ClaimRewardError(e, sender, epochId, nativeBalance) ==
    LET ep == e.epochs[epochId]
    IN  IF ~ep.finalized THEN "EpochNotActive"
        ELSE IF ep.winner # sender THEN "NothingToClaim"
        ELSE IF sender \in e.rewardClaimed[epochId] THEN "NothingToClaim"
        ELSE IF e.epochRewardAmount = 0 THEN "NothingToClaim"
        ELSE IF nativeBalance < e.epochRewardAmount THEN "TransferFailed"
        ELSE OK

ClaimRewardEm(e, sender, epochId) ==
    [e EXCEPT !.rewardClaimed[epochId] = @ \cup {sender}]

-----------------------------------------------------------------------------
(* The state after the three constructors have run (deployment at time     *)
(* DeployTime, with the arguments below), before any two-phase wiring.     *)

DeployTime == 1
InitialFeeBps == 30
InitialCurveBeta == 5000
InitialMinBond == 1
InitialCooldown == 2
InitialMaxFeeDelta == 50
InitialMaxBetaDelta == 2000
InitialEpochDuration == 2
InitialEpochReward == 1

Holders == Users \cup {SINK}

InitPool ==
    [reserve0 |-> 0, reserve1 |-> 0,
     feeBps |-> InitialFeeBps, curveBeta |-> InitialCurveBeta, curveMode |-> Normal,
     controller |-> ZERO, epochManager |-> ZERO,
     tradeCount |-> 0, cumulativeVolume0 |-> 0, cumulativeVolume1 |-> 0,
     price0CumulativeLast |-> <<>>, price1CumulativeLast |-> <<>>,
     blockTimestampLast |-> 0,
     protocolFeeBps |-> 0, treasury |-> OWNER, owner |-> OWNER,
     protocolFeeAccum0 |-> 0, protocolFeeAccum1 |-> 0,
     parameterUpdateBlock |-> 0, paused |-> FALSE,
     totalSupply |-> 0, balanceOf |-> [h \in Holders |-> 0],
     allowance |-> [h \in Holders |-> [x \in Holders |-> 0]],
     nonces |-> [h \in Holders |-> 0]]

InitCtrl ==
    [owner |-> OWNER, bondToken |-> ZERO,
     minBond |-> InitialMinBond, cooldownSeconds |-> InitialCooldown,
     maxFeeDelta |-> InitialMaxFeeDelta, maxBetaDelta |-> InitialMaxBetaDelta,
     agents |-> [a \in Users |-> NoAgent],
     agentList |-> <<>>,
     updateCount |-> [a \in Users |-> 0],
     paused |-> FALSE]

InitEm ==
    [epochDuration |-> InitialEpochDuration,
     currentEpochId |-> 1,
     epochStartTime |-> DeployTime,
     scorer |-> SCORER, owner |-> OWNER,
     epochs |-> [i \in EpochIds |->
                   IF i = 1 THEN NewEpoch(1, DeployTime, DeployTime + InitialEpochDuration)
                   ELSE NoEpoch],
     epochProposals |-> [i \in EpochIds |-> <<>>],
     hasProposed |-> [i \in EpochIds |-> {}],
     agentScores |-> [i \in EpochIds |-> [a \in Addresses |-> 0]],
     epochAgents |-> [i \in EpochIds |-> <<>>],
     epochRewardAmount |-> 0,
     rewardClaimed |-> [i \in EpochIds |-> {}],
     totalScore |-> [a \in Addresses |-> 0],
     epochsWon |-> [a \in Addresses |-> 0],
     epochsParticipated |-> [a \in Addresses |-> 0]]

InitBalances ==
    [pool0 |-> 0, pool1 |-> 0, ctrlNative |-> 0, ctrlToken |-> 0, emNative |-> 0]

NoCall == Receipt("none", ZERO, <<>>, OK, 0)

Init ==
    /\ now = DeployTime
    /\ pool = InitPool
    /\ ctrl = InitCtrl
    /\ em = InitEm
    /\ balances = InitBalances
    /\ proposedAt = [a \in Users |-> 0]
    /\ liquidityEvents = 0
    /\ twapPoint = 0
    /\ callback = NoCallback
    /\ timelock = InitTimelock
    /\ queuedAt = NoQueueing
    /\ breaker = InitBreaker
    /\ checks = 0
    /\ era = 0
    /\ lastCall = NoCall

\* The pool is wired to both callers after construction.
DeployedPool == [InitPool EXCEPT !.controller = CTRL, !.epochManager = EM]

\* The end-to-end fixture: a scorer of its own, and setEpochReward before the
\* pool is wired.
FixtureEm == [InitEm EXCEPT !.epochRewardAmount = InitialEpochReward]

\* The deploy script: the deployer is passed as scorer and as owner, and
\* setEpochReward runs before the pool is wired.
ScriptEm == [InitEm EXCEPT !.scorer = OWNER, !.epochRewardAmount = InitialEpochReward]

InitDeployed ==
    /\ now = DeployTime
    /\ pool = DeployedPool
    /\ ctrl = InitCtrl
    /\ em = FixtureEm
    /\ balances = InitBalances
    /\ proposedAt = [a \in Users |-> 0]
    /\ liquidityEvents = 0
    /\ twapPoint = 0
    /\ callback = NoCallback
    /\ timelock = InitTimelock
    /\ queuedAt = NoQueueing
    /\ breaker = InitBreaker
    /\ checks = 0
    /\ era = 0
    /\ lastCall = NoCall

\* A new block: time passes, no transaction yet.
Tick ==
    /\ now < MaxTime
    /\ now' = now + 1
    /\ lastCall' = NoCall
    /\ callback' = NoCallback
    /\ UNCHANGED offPool
    /\ UNCHANGED <<pool, ctrl, em, balances, proposedAt, liquidityEvents, twapPoint>>

\* A new block after block.timestamp has passed the next multiple of 2^32:
\* its low 32 bits, which is all that _updateTWAP reads of it, are t.
ClockWraps(t) ==
    /\ era < MaxEra
    /\ era' = era + 1
    /\ now' = t
    /\ lastCall' = NoCall
    /\ callback' = NoCallback
    /\ UNCHANGED <<timelock, queuedAt, breaker, checks>>
    /\ UNCHANGED <<pool, ctrl, em, balances, proposedAt, liquidityEvents, twapPoint>>

-----------------------------------------------------------------------------
(* EvoPool: transactions.                                                  *)

PoolTx(op, sender, args, err, ret, newPool, newBalances) ==
    IF err # OK THEN Reverted(op, sender, args, err)
    ELSE /\ pool' = newPool
         /\ balances' = newBalances
         /\ lastCall' = Receipt(op, sender, args, OK, ret)
         /\ liquidityEvents' = IF op \in {"addLiquidity", "removeLiquidity"}
                               THEN liquidityEvents + 1 ELSE liquidityEvents
         /\ twapPoint' = IF op \in {"addLiquidity", "removeLiquidity", "swap"}
                         THEN now ELSE twapPoint
         /\ callback' = NoCallback
         /\ UNCHANGED offPool
         /\ UNCHANGED <<now, ctrl, em, proposedAt>>

SetController(sender, _controller) ==
    PoolTx("setController", sender, <<_controller>>, PoolAdminError(sender), 0,
           [pool EXCEPT !.controller = _controller], balances)

SetEpochManager(sender, _epochManager) ==
    PoolTx("setEpochManager", sender, <<_epochManager>>, PoolAdminError(sender), 0,
           [pool EXCEPT !.epochManager = _epochManager], balances)

SetProtocolFee(sender, _protocolFeeBps) ==
    PoolTx("setProtocolFee", sender, <<_protocolFeeBps>>,
           SetProtocolFeeError(sender, _protocolFeeBps), 0,
           [pool EXCEPT !.protocolFeeBps = _protocolFeeBps], balances)

SetTreasury(sender, _treasury) ==
    PoolTx("setTreasury", sender, <<_treasury>>, PoolAdminError(sender), 0,
           [pool EXCEPT !.treasury = _treasury], balances)

PausePool(sender) ==
    PoolTx("pool.pause", sender, <<>>, PoolAdminError(sender), 0,
           [pool EXCEPT !.paused = TRUE], balances)

UnpausePool(sender) ==
    PoolTx("pool.unpause", sender, <<>>, PoolAdminError(sender), 0,
           [pool EXCEPT !.paused = FALSE], balances)

\* Ownable.transferOwnership and renounceOwnership of the pool
TransferOwnershipPool(sender, newOwner) ==
    PoolTx("pool.transferOwnership", sender, <<newOwner>>,
           TransferOwnershipError(pool, sender, newOwner), 0,
           [pool EXCEPT !.owner = newOwner], balances)

RenounceOwnershipPool(sender) ==
    PoolTx("pool.renounceOwnership", sender, <<>>, PoolAdminError(sender), 0,
           [pool EXCEPT !.owner = ZERO], balances)

\* ---- the LP token (OpenZeppelin ERC20 and ERC20Permit)
\* type(uint256).max as an allowance, never spent down; written as the
\* two's complement reading of the all-ones word
UNLIMITED == -1

\* ERC20._transfer and _update: receiver, then balance
_transferError(p, from, to, value) ==
    IF to = ZERO THEN "ERC20InvalidReceiver"
    ELSE IF p.balanceOf[from] < value THEN "ERC20InsufficientBalance"
    ELSE OK

_transfer(p, from, to, value) ==
    [p EXCEPT !.balanceOf = [h \in Holders |->
                               (IF h = from THEN @[h] - value ELSE @[h])
                               + (IF h = to THEN value ELSE 0)]]

\* ERC20._spendAllowance
_spendAllowanceError(p, owner, spender, value) ==
    IF p.allowance[owner][spender] = UNLIMITED THEN OK
    ELSE IF p.allowance[owner][spender] < value THEN "ERC20InsufficientAllowance"
    ELSE OK

_spendAllowance(p, owner, spender, value) ==
    IF p.allowance[owner][spender] = UNLIMITED THEN p
    ELSE [p EXCEPT !.allowance[owner][spender] = @ - value]

Transfer(sender, to, value) ==
    PoolTx("transfer", sender, <<to, value>>, _transferError(pool, sender, to, value), 0,
           _transfer(pool, sender, to, value), balances)

Approve(sender, spender, value) ==
    PoolTx("approve", sender, <<spender, value>>,
           IF spender = ZERO THEN "ERC20InvalidSpender" ELSE OK, 0,
           [pool EXCEPT !.allowance[sender][spender] = value], balances)

TransferFromError(p, sender, from, to, value) ==
    IF _spendAllowanceError(p, from, sender, value) # OK
    THEN _spendAllowanceError(p, from, sender, value)
    ELSE _transferError(p, from, to, value)

TransferFrom(sender, from, to, value) ==
    PoolTx("transferFrom", sender, <<from, to, value>>,
           TransferFromError(pool, sender, from, to, value), 0,
           _transfer(_spendAllowance(pool, from, sender, value), from, to, value),
           balances)

\* ERC20Permit.permit: signer is the account whose key made the signature
\* and nonce the nonce it signed; ecrecover over the owner's current nonce
\* returns the owner only when both agree
PermitError(p, owner, spender, value, deadline, signer, nonce, t) ==
    IF t > deadline THEN "ERC2612ExpiredSignature"
    ELSE IF signer # owner \/ nonce # p.nonces[owner] THEN "ERC2612InvalidSigner"
    ELSE IF spender = ZERO THEN "ERC20InvalidSpender"
    ELSE OK

Permit(sender, owner, spender, value, deadline, signer, nonce) ==
    /\ pool.nonces[owner] < MaxPermits
    /\ PoolTx("permit", sender, <<owner, spender, value, deadline, signer, nonce>>,
              PermitError(pool, owner, spender, value, deadline, signer, nonce, now), 0,
              [pool EXCEPT !.allowance[owner][spender] = value,
                           !.nonces[owner] = @ + 1],
              balances)

CollectProtocolFees(sender) ==
    PoolTx("collectProtocolFees", sender, <<>>, OK, 0,
           CollectProtocolFeesPool(pool),
           [balances EXCEPT !.pool0 = @ - pool.protocolFeeAccum0,
                            !.pool1 = @ - pool.protocolFeeAccum1])

AddLiquidity(sender, amount0, amount1) ==
    /\ liquidityEvents < MaxLiquidityEvents
    /\ pool.reserve0 + amount0 <= MaxReserve
    /\ pool.reserve1 + amount1 <= MaxReserve
    \* the revert of a failed check undoes what the call has written
    /\ \E r \in {AddLiquidityRun(pool, balances, sender, amount0, amount1, now)} :
           PoolTx("addLiquidity", sender, <<amount0, amount1>>, r.err, r.ret,
                  r.pool, r.balances)

RemoveLiquidity(sender, liquidity) ==
    /\ liquidityEvents < MaxLiquidityEvents
    \* the revert of a failed check undoes what the call has written
    /\ \E r \in {RemoveLiquidityRun(pool, balances, sender, liquidity, now)} :
           PoolTx("removeLiquidity", sender, <<liquidity>>, r.err, r.ret,
                  r.pool, r.balances)

Swap(sender, zeroForOne, amountIn, minAmountOut) ==
    /\ pool.tradeCount < MaxTrades
    /\ (IF zeroForOne THEN pool.reserve0 ELSE pool.reserve1) + amountIn <= MaxReserve
    \* the revert of a failed check undoes what the call has written
    /\ \E r \in {SwapRun(pool, balances, zeroForOne, amountIn, minAmountOut, now)} :
           PoolTx("swap", sender, <<zeroForOne, amountIn, minAmountOut>>, r.err, r.ret,
                  r.pool, r.balances)

UpdateParameters(sender, _feeBps, _curveBeta, _curveMode, _agent) ==
    PoolTx("updateParameters", sender, <<_feeBps, _curveBeta, _curveMode, _agent>>,
           UpdateParametersError(pool, sender, _feeBps, _curveMode), 0,
           UpdateParametersPool(pool, _feeBps, _curveBeta, _curveMode), balances)

-----------------------------------------------------------------------------
(* AgentController: transactions.                                          *)

CtrlTx(op, sender, args, err, newCtrl, newBalances) ==
    IF err # OK THEN Reverted(op, sender, args, err)
    ELSE /\ ctrl' = newCtrl
         /\ balances' = newBalances
         /\ lastCall' = Receipt(op, sender, args, OK, 0)
         /\ callback' = NoCallback
         /\ UNCHANGED offPool
         /\ UNCHANGED <<now, pool, em, proposedAt, liquidityEvents, twapPoint>>

PauseCtrl(sender) ==
    CtrlTx("ctrl.pause", sender, <<>>, OnlyOwnerError(ctrl, sender),
           [ctrl EXCEPT !.paused = TRUE], balances)

UnpauseCtrl(sender) ==
    CtrlTx("ctrl.unpause", sender, <<>>, OnlyOwnerError(ctrl, sender),
           [ctrl EXCEPT !.paused = FALSE], balances)

SetMinBond(sender, _v) ==
    CtrlTx("setMinBond", sender, <<_v>>, OnlyOwnerError(ctrl, sender),
           [ctrl EXCEPT !.minBond = _v], balances)

SetCooldown(sender, _v) ==
    CtrlTx("setCooldown", sender, <<_v>>, OnlyOwnerError(ctrl, sender),
           [ctrl EXCEPT !.cooldownSeconds = _v], balances)

SetMaxFeeDelta(sender, _v) ==
    CtrlTx("setMaxFeeDelta", sender, <<_v>>, OnlyOwnerError(ctrl, sender),
           [ctrl EXCEPT !.maxFeeDelta = _v], balances)

SetMaxBetaDelta(sender, _v) ==
    CtrlTx("setMaxBetaDelta", sender, <<_v>>, OnlyOwnerError(ctrl, sender),
           [ctrl EXCEPT !.maxBetaDelta = _v], balances)

SetBondToken(sender, _token) ==
    CtrlTx("setBondToken", sender, <<_token>>, OnlyOwnerError(ctrl, sender),
           [ctrl EXCEPT !.bondToken = _token], balances)

\* Ownable.transferOwnership and renounceOwnership of the controller
TransferOwnershipCtrl(sender, newOwner) ==
    CtrlTx("ctrl.transferOwnership", sender, <<newOwner>>,
           TransferOwnershipError(ctrl, sender, newOwner),
           [ctrl EXCEPT !.owner = newOwner], balances)

RenounceOwnershipCtrl(sender) ==
    CtrlTx("ctrl.renounceOwnership", sender, <<>>, OnlyOwnerError(ctrl, sender),
           [ctrl EXCEPT !.owner = ZERO], balances)

\* receive(): a plain transfer to the controller is accepted from anyone and
\* credits no bond
ReceiveCtrl(sender, value) ==
    /\ balances.ctrlNative + value <= MaxCtrlBalance
    /\ CtrlTx("ctrl.receive", sender, <<value>>, OK, ctrl,
              [balances EXCEPT !.ctrlNative = @ + value])

RegisterAgent(sender, value) ==
    /\ Len(ctrl.agentList) < MaxRegistrations
    /\ CtrlTx("registerAgent", sender, <<value>>, RegisterAgentError(ctrl, sender, value),
              RegisterAgentCtrl(ctrl, sender, value, now),
              [balances EXCEPT !.ctrlNative = @ + value])

DeregisterAgent(sender) ==
    CtrlTx("deregisterAgent", sender, <<>>,
           DeregisterAgentError(ctrl, sender, balances.ctrlNative),
           DeregisterAgentCtrl(ctrl, sender),
           [balances EXCEPT !.ctrlNative = @ - ctrl.agents[sender].bondAmount])

TopUpBond(sender, value) ==
    /\ ctrl.agents[sender].bondAmount + value <= MaxBond
    /\ CtrlTx("topUpBond", sender, <<value>>, TopUpBondError(ctrl, sender, value),
              TopUpBondCtrl(ctrl, sender, value),
              [balances EXCEPT !.ctrlNative = @ + value])

DepositTokenBond(sender, amount) ==
    /\ ctrl.agents[sender].tokenBondAmount + amount <= MaxBond
    /\ CtrlTx("depositTokenBond", sender, <<amount>>,
              DepositTokenBondError(ctrl, sender, amount),
              DepositTokenBondCtrl(ctrl, sender, amount),
              [balances EXCEPT !.ctrlToken = @ + amount])

WithdrawTokenBond(sender) ==
    CtrlTx("withdrawTokenBond", sender, <<>>,
           WithdrawTokenBondError(ctrl, sender, balances.ctrlToken),
           WithdrawTokenBondCtrl(ctrl, sender),
           [balances EXCEPT !.ctrlToken = @ - ctrl.agents[sender].tokenBondAmount])

SlashAgent(sender, agent, amount) ==
    CtrlTx("slashAgent", sender, <<agent, amount>>,
           SlashAgentError(ctrl, sender, agent, amount, balances.ctrlNative),
           SlashAgentCtrl(ctrl, agent, amount),
           [balances EXCEPT !.ctrlNative = @ - amount])

SubmitParameterUpdate(sender, newFeeBps, newCurveBeta, newCurveMode) ==
    /\ ctrl.updateCount[sender] < MaxUpdates
    /\ LET err == SubmitParameterUpdateError(ctrl, pool, sender, newFeeBps,
                                             newCurveBeta, newCurveMode, now)
           args == <<newFeeBps, newCurveBeta, newCurveMode>>
       IN  IF err # OK THEN Reverted("submitParameterUpdate", sender, args, err)
           ELSE /\ ctrl' = SubmitParameterUpdateCtrl(ctrl, sender, now)
                /\ pool' = UpdateParametersPool(pool, newFeeBps, newCurveBeta, newCurveMode)
                /\ proposedAt' = [proposedAt EXCEPT ![sender] = now]
                /\ lastCall' = Receipt("submitParameterUpdate", sender, args, OK, 0)
                /\ callback' = NoCallback
                /\ UNCHANGED offPool
                /\ UNCHANGED <<now, em, balances, liquidityEvents, twapPoint>>

-----------------------------------------------------------------------------
(* EpochManager: transactions.                                             *)

EmTx(op, sender, args, err, newEm, newBalances) ==
    IF err # OK THEN Reverted(op, sender, args, err)
    ELSE /\ em' = newEm
         /\ balances' = newBalances
         /\ lastCall' = Receipt(op, sender, args, OK, 0)
         /\ callback' = NoCallback
         /\ UNCHANGED offPool
         /\ UNCHANGED <<now, pool, ctrl, proposedAt, liquidityEvents, twapPoint>>

SetScorer(sender, _scorer) ==
    EmTx("setScorer", sender, <<_scorer>>, OnlyOwnerError(em, sender),
         [em EXCEPT !.scorer = _scorer], balances)

SetEpochDuration(sender, _duration) ==
    EmTx("setEpochDuration", sender, <<_duration>>, OnlyOwnerError(em, sender),
         [em EXCEPT !.epochDuration = _duration], balances)

SetEpochReward(sender, _amount) ==
    EmTx("setEpochReward", sender, <<_amount>>, OnlyOwnerError(em, sender),
         [em EXCEPT !.epochRewardAmount = _amount], balances)

\* Ownable.transferOwnership and renounceOwnership of the epoch manager
TransferOwnershipEm(sender, newOwner) ==
    EmTx("em.transferOwnership", sender, <<newOwner>>,
         TransferOwnershipError(em, sender, newOwner),
         [em EXCEPT !.owner = newOwner], balances)

RenounceOwnershipEm(sender) ==
    EmTx("em.renounceOwnership", sender, <<>>, OnlyOwnerError(em, sender),
         [em EXCEPT !.owner = ZERO], balances)

\* receive(): the reward escrow is funded by plain transfers
FundRewards(sender, value) ==
    /\ balances.emNative + value <= MaxBond
    /\ EmTx("receive", sender, <<value>>, OK, em,
            [balances EXCEPT !.emNative = @ + value])

\* an accepted proposal is explored while the epoch and participation
\* counters are within the bounds
SubmitProposal(sender, feeBps, curveBeta, curveMode_) ==
    LET err == SubmitProposalError(em, ctrl, sender, feeBps, curveMode_, now)
    IN  /\ err = OK =>
             /\ NeedsAdvance(em, now) => em.currentEpochId <= MaxEpochs
             /\ em.epochsParticipated[sender] < MaxParticipations
        /\ EmTx("submitProposal", sender, <<feeBps, curveBeta, curveMode_>>, err,
                SubmitProposalEm(em, sender, feeBps, curveBeta, curveMode_, now), balances)

\* a successful finalization is explored for epochs 1..MaxEpochs
FinalizeEpoch(sender, epochId, agents, scores) ==
    /\ LET err == FinalizeEpochError(em, pool, sender, epochId, agents, scores)
           args == <<epochId, agents, scores>>
       IN  IF err # OK THEN Reverted("finalizeEpoch", sender, args, err)
           ELSE /\ epochId <= MaxEpochs
                /\ em' = FinalizeEpochEm(em, epochId, agents, scores, now)
                /\ pool' = FinalizeEpochPool(em, pool, epochId, agents, scores)
                /\ lastCall' = Receipt("finalizeEpoch", sender, args, OK, 0)
                /\ callback' = NoCallback
                /\ UNCHANGED offPool
                /\ UNCHANGED <<now, ctrl, balances, proposedAt, liquidityEvents, twapPoint>>

ClaimReward(sender, epochId) ==
    EmTx("claimReward", sender, <<epochId>>,
         ClaimRewardError(em, sender, epochId, balances.emNative),
         ClaimRewardEm(em, sender, epochId),
         [balances EXCEPT !.emNative = @ - em.epochRewardAmount])

-----------------------------------------------------------------------------
(* The pool on its own: liquidity, swaps, the owner's settings and          *)
(* parameter updates sent straight to the pool by whoever is its           *)
(* controller.                                                             *)

ProtocolFeeInputs == {MAX_PROTOCOL_FEE_BPS, MAX_PROTOCOL_FEE_BPS + 1}
DepositInputs == {<<2000, 2000>>, <<1000, 1000>>, <<500, 0>>}
ShareInputs == {0, 1000}
\* <<zeroForOne, amountIn, minAmountOut>>
SwapInputs == {<<TRUE, 200, 0>>, <<FALSE, 200, 0>>, <<TRUE, 2000, 0>>,
               <<TRUE, 0, 0>>, <<TRUE, 200, MaxReserve>>}
\* <<feeBps, curveBeta, curveMode>>
ParamInputs == {<<InitialFeeBps, InitialCurveBeta, Defensive>>,
                <<0, 2 * BETA_SCALE, VolatilityAdaptive>>,
                <<MAX_FEE_BPS, 0, Normal>>,
                <<MAX_FEE_BPS + 1, InitialCurveBeta, Normal>>,
                <<InitialFeeBps, InitialCurveBeta, MAX_CURVE_MODE + 1>>}

PoolAdminNext ==
    \/ \E sender \in {OWNER, "a1"} : SetController(sender, "a2")
    \/ \E v \in ProtocolFeeInputs : SetProtocolFee(OWNER, v)

PoolLiquidityNext ==
    \/ \E d \in DepositInputs : AddLiquidity("a1", d[1], d[2])
    \/ \E l \in ShareInputs : RemoveLiquidity("a1", l)
    \/ CollectProtocolFees("a1")

PoolSwapNext ==
    \E x \in SwapInputs : Swap("a1", x[1], x[2], x[3])

PoolParamNext ==
    \/ \E x \in ParamInputs : UpdateParameters("a2", x[1], x[2], x[3], "a2")
    \/ UpdateParameters("a1", InitialFeeBps, InitialCurveBeta, Normal, "a1")

NextPool ==
    \/ PoolAdminNext
    \/ PoolLiquidityNext
    \/ PoolSwapNext
    \/ PoolParamNext

SpecPool == Init /\ [][NextPool]_vars

\* The step is a swap that went through.
SwapSucceeded ==
    /\ lastCall'.op = "swap"
    /\ lastCall'.err = OK
    /\ pool'.tradeCount = pool.tradeCount + 1

\* reserve and protocol-fee accrual of the swap's input and output token
ReserveIn(p) == IF lastCall'.args[1] THEN p.reserve0 ELSE p.reserve1
ReserveOut(p) == IF lastCall'.args[1] THEN p.reserve1 ELSE p.reserve0
AccrualIn(p) == IF lastCall'.args[1] THEN p.protocolFeeAccum0 ELSE p.protocolFeeAccum1
AccrualOut(p) == IF lastCall'.args[1] THEN p.protocolFeeAccum1 ELSE p.protocolFeeAccum0

\* the protocol fee of a swap in Normal mode, where effectiveIn = actualIn
NormalProtocolFee(p, actualIn) ==
    (((actualIn * p.feeBps) \div BPS_DENOMINATOR) * p.protocolFeeBps) \div BPS_DENOMINATOR

\* C18 as stated: after every successful swap the input-side reserve has
\* grown by exactly the amount received and the output-side reserve has
\* shrunk by amountOut and by the protocol fee added to the accrual.
C18_AsStated ==
    [][SwapSucceeded =>
         LET protocolFee == (pool'.protocolFeeAccum0 + pool'.protocolFeeAccum1)
                              - (pool.protocolFeeAccum0 + pool.protocolFeeAccum1)
         IN  /\ ReserveIn(pool') = ReserveIn(pool) + lastCall'.args[2]
             /\ ReserveOut(pool') = ReserveOut(pool) - lastCall'.ret - protocolFee]_vars

\* C18: after every successful swap the input-side reserve has grown by the
\* amount received less the protocol fee, the output-side reserve has shrunk
\* by exactly amountOut, and the protocol fee went to the accrual of the
\* input token; the pool's token balances moved by the amount received and
\* amountOut.
C18_SwapReserveAccounting ==
    [][SwapSucceeded =>
         LET protocolFee == AccrualIn(pool') - AccrualIn(pool)
         IN  /\ protocolFee >= 0
             /\ AccrualOut(pool') = AccrualOut(pool)
             /\ ReserveIn(pool') = ReserveIn(pool) + lastCall'.args[2] - protocolFee
             /\ ReserveOut(pool') = ReserveOut(pool) - lastCall'.ret
             /\ (pool.curveMode = Normal =>
                    protocolFee = NormalProtocolFee(pool, lastCall'.args[2]))
             /\ (pool.protocolFeeBps = 0 => protocolFee = 0)
             /\ IF lastCall'.args[1]
                THEN /\ balances'.pool0 = balances.pool0 + lastCall'.args[2]
                     /\ balances'.pool1 = balances.pool1 - lastCall'.ret
                ELSE /\ balances'.pool1 = balances.pool1 + lastCall'.args[2]
                     /\ balances'.pool0 = balances.pool0 - lastCall'.ret]_vars

\* A swap of token0 for token1 has just paid out and left a protocol fee in
\* the accrual of token0, in a curve mode with a penalty.
C18_Witness ==
    /\ lastCall.op = "swap" /\ lastCall.err = OK
    /\ lastCall.args[1] /\ lastCall.ret > 0
    /\ pool.protocolFeeAccum0 > 0
    /\ pool.curveMode # Normal

\* C1: every swap that succeeds, in any curve mode, with any curveBeta, any
\* feeBps up to 500 and any protocolFeeBps up to 2000, leaves the product
\* reserve0 * reserve1 at least as large as it was before the swap.
C1_SwapNeverDecreasesK ==
    [][SwapSucceeded =>
         pool'.reserve0 * pool'.reserve1 >= pool.reserve0 * pool.reserve1]_vars

-----------------------------------------------------------------------------
(* Governance: agents register with the AgentController and push parameter *)
(* updates to the deployed pool while blocks pass.                         *)

BondInputs == {0, InitialMinBond}
FeeDeltaInputs == {MAX_FEE_BPS - InitialFeeBps}

\* <<newFeeBps, newCurveBeta, newCurveMode>> around the limits in force
UpdateInputs ==
    LET f == pool.feeBps
        b == pool.curveBeta
        D == ctrl.maxFeeDelta
        B == ctrl.maxBetaDelta
    IN  { x \in { <<f + D, b + B, Defensive>>, <<f - D, b - B, Normal>>,
                  <<f + D + 1, b, Normal>>, <<f - D - 1, b, Normal>>,
                  <<f, b + B + 1, Normal>>, <<f, b - B - 1, Normal>>,
                  <<f, b, MAX_CURVE_MODE + 1>> } : x[1] >= 0 /\ x[2] >= 0 }

GovRegistryNext ==
    \/ \E v \in BondInputs : RegisterAgent("a1", v)
    \/ RegisterAgent("a2", InitialMinBond)
    \/ DeregisterAgent("a1")

GovOwnerNext ==
    \/ \E v \in FeeDeltaInputs : SetMaxFeeDelta(OWNER, v)
    \/ PauseCtrl(OWNER)
    \/ UnpauseCtrl(OWNER)

GovUpdateNext ==
    \/ \E x \in UpdateInputs : SubmitParameterUpdate("a1", x[1], x[2], x[3])
    \/ SubmitParameterUpdate("a2", pool.feeBps + ctrl.maxFeeDelta, pool.curveBeta, Normal)

NextGov ==
    \/ Tick
    \/ GovRegistryNext
    \/ GovOwnerNext
    \/ GovUpdateNext

SpecGov == InitDeployed /\ [][NextGov]_vars

\* The step is a call of submitParameterUpdate, accepted or not; the call's
\* receipt is lastCall', the state it ran against is the unprimed one.
UpdateCall == lastCall'.op = "submitParameterUpdate"

UpdateAccepted == UpdateCall /\ lastCall'.err = OK

CooldownOver(a) ==
    \/ ctrl.agents[a].lastUpdateTime = 0
    \/ now >= ctrl.agents[a].lastUpdateTime + ctrl.cooldownSeconds

\* Nothing but the proposed values stands in the caller's way.
CallerMayUpdate ==
    /\ ~ctrl.paused
    /\ ctrl.agents[lastCall'.sender].active
    /\ CooldownOver(lastCall'.sender)
    /\ CTRL \in {pool.controller, pool.epochManager}

FeeDiff == AbsDiff(lastCall'.args[1], pool.feeBps)

BetaDiff == AbsDiff(lastCall'.args[2], pool.curveBeta)

WithinCaps == lastCall'.args[1] <= MAX_FEE_BPS /\ lastCall'.args[3] <= MAX_CURVE_MODE

WithinDeltas == FeeDiff <= ctrl.maxFeeDelta /\ BetaDiff <= ctrl.maxBetaDelta

\* C2 (as amended): every accepted submitParameterUpdate proposes a fee within
\* maxFeeDelta and a beta within maxBetaDelta of the pool's values just before
\* the call; an otherwise valid proposal within both deltas (the boundary
\* included) is accepted; one beyond either delta, upward or downward, is
\* rejected with DeltaExceedsLimit when the fee is at most 500, and with
\* FeeTooHigh when the fee exceeds 500.
C2_DeltaBound ==
    [][UpdateCall =>
         /\ lastCall'.err = OK => WithinDeltas
         /\ CallerMayUpdate /\ WithinCaps /\ WithinDeltas => lastCall'.err = OK
         /\ CallerMayUpdate /\ WithinCaps /\ ~WithinDeltas =>
                lastCall'.err = "DeltaExceedsLimit"
         /\ CallerMayUpdate /\ lastCall'.args[1] > MAX_FEE_BPS =>
                lastCall'.err = "FeeTooHigh"]_vars

\* C2 as stated: as above, but a proposal one past the fee delta is rejected
\* with DeltaExceedsLimit whatever its size.
C2_AsStated ==
    [][UpdateCall =>
         /\ lastCall'.err = OK => WithinDeltas
         /\ CallerMayUpdate /\ WithinCaps /\ WithinDeltas => lastCall'.err = OK
         /\ CallerMayUpdate /\ lastCall'.args[3] <= MAX_CURVE_MODE
              /\ FeeDiff = ctrl.maxFeeDelta + 1 =>
                lastCall'.err = "DeltaExceedsLimit"
         /\ CallerMayUpdate /\ WithinCaps /\ BetaDiff = ctrl.maxBetaDelta + 1 =>
                lastCall'.err = "DeltaExceedsLimit"]_vars

\* An update to exactly currentFee + maxFeeDelta = 500 has just been accepted:
\* it is the only update so far, so the fee before it was the initial one.
C2_Witness ==
    /\ lastCall.op = "submitParameterUpdate"
    /\ lastCall.err = OK
    /\ lastCall.args[1] = InitialFeeBps + ctrl.maxFeeDelta
    /\ pool.feeBps = MAX_FEE_BPS
    /\ ctrl.updateCount["a1"] + ctrl.updateCount["a2"] = 1

\* C3: any two accepted submitParameterUpdate calls by the same address are at
\* least cooldownSeconds apart, whatever AgentController operations come
\* between them (deregisterAgent followed by registerAgent included).
\* proposedAt[a] is the timestamp of a's latest AgentUpdateProposed event.
C3_UpdatesCooldownApart ==
    [][UpdateAccepted /\ proposedAt[lastCall'.sender] # 0 =>
         now >= proposedAt[lastCall'.sender] + ctrl.cooldownSeconds]_vars

\* C4: for a registered agent whose last accepted update was at time t
\* (lastUpdateTime = t, the time of its latest AgentUpdateProposed event), a
\* further update is rejected with CooldownActive when now < t + C, and an
\* otherwise valid one is accepted when now >= t + C; an agent that has not
\* updated since it registered (lastUpdateTime = 0) is never rejected with
\* CooldownActive; an accepted update sets lastUpdateTime to now.
C4_Cooldown ==
    [][UpdateCall /\ ~ctrl.paused /\ ctrl.agents[lastCall'.sender].active =>
         LET a == lastCall'.sender
             t == ctrl.agents[a].lastUpdateTime
             C == ctrl.cooldownSeconds
         IN  /\ t # 0 => t = proposedAt[a]
             /\ t # 0 /\ now < t + C => lastCall'.err = "CooldownActive"
             /\ t = 0 \/ now >= t + C => lastCall'.err # "CooldownActive"
             /\ (t = 0 \/ now >= t + C) /\ WithinCaps /\ WithinDeltas
                  /\ CTRL \in {pool.controller, pool.epochManager} =>
                    lastCall'.err = OK
             /\ lastCall'.err = OK => ctrl'.agents[a].lastUpdateTime = now]_vars

\* The only agent ever registered has had its second update accepted exactly
\* cooldownSeconds after its first, which it made in the deployment block.
C4_Witness ==
    /\ lastCall.op = "submitParameterUpdate"
    /\ lastCall.err = OK
    /\ ctrl.agentList = <<"a1">>
    /\ ctrl.updateCount["a1"] = 2
    /\ now = DeployTime + ctrl.cooldownSeconds
    /\ ctrl.agents["a1"].lastUpdateTime = now

-----------------------------------------------------------------------------
(* The three ways to the pool's parameters: a direct updateParameters call, *)
(* AgentController.submitParameterUpdate and EpochManager.finalizeEpoch,    *)
(* next to the pool operations that must leave the parameters alone.  The   *)
(* owner wires the pool first.                                              *)

\* <<feeBps, curveBeta, curveMode>>: in range, fee out of range, mode out of range
DirectInputs == {<<50, 7000, Defensive>>, <<MAX_FEE_BPS + 1, 5000, Normal>>,
                 <<30, 5000, MAX_CURVE_MODE + 1>>}
AgentInputs == {<<80, 7000, VolatilityAdaptive>>, <<MAX_FEE_BPS + 1, 5000, Normal>>,
                <<30, 5000, MAX_CURVE_MODE + 1>>}
ProposalInputs == {<<MAX_FEE_BPS, 2 * BETA_SCALE, Defensive>>,
                   <<MAX_FEE_BPS + 1, 5000, Normal>>,
                   <<30, 5000, MAX_CURVE_MODE + 1>>}

ParamsWiringNext ==
    \/ \E c \in {CTRL, "a2"} : SetController(OWNER, c)
    \/ SetEpochManager(OWNER, EM)

ParamsDirectNext ==
    \/ \E x \in DirectInputs : UpdateParameters("a2", x[1], x[2], x[3], "a2")
    \/ UpdateParameters("a1", 50, 7000, Defensive, "a1")

ParamsPoolNext ==
    \/ AddLiquidity("a1", 2000, 2000)
    \/ RemoveLiquidity("a1", 1000)
    \/ Swap("a1", TRUE, 200, 0)
    \/ CollectProtocolFees("a1")

ParamsAgentNext ==
    \/ RegisterAgent("a1", InitialMinBond)
    \/ \E x \in AgentInputs : SubmitParameterUpdate("a1", x[1], x[2], x[3])

ParamsEpochNext ==
    \/ \E x \in ProposalInputs : SubmitProposal("a1", x[1], x[2], x[3])
    \/ \E score \in {0, 1} :
         FinalizeEpoch(SCORER, em.currentEpochId, <<"a1">>, <<score>>)

NextParams ==
    \/ ParamsWiringNext
    \/ ParamsDirectNext
    \/ ParamsPoolNext
    \/ ParamsAgentNext
    \/ ParamsEpochNext

SpecParams == Init /\ [][NextParams]_vars

ParamsChanged ==
    \/ pool'.feeBps # pool.feeBps
    \/ pool'.curveBeta # pool.curveBeta
    \/ pool'.curveMode # pool.curveMode

Authorised(a) == a = pool.controller \/ a = pool.epochManager

\* The account that calls the pool's updateParameters in this step.
PoolCaller ==
    IF lastCall'.op = "updateParameters" THEN lastCall'.sender
    ELSE IF lastCall'.op = "submitParameterUpdate" THEN CTRL
    ELSE EM

ParameterPaths == {"updateParameters", "submitParameterUpdate", "finalizeEpoch"}

LiquidityPaths == {"swap", "addLiquidity", "removeLiquidity", "collectProtocolFees"}

\* C5 (as amended): feeBps, curveBeta and curveMode change only in a step that
\* is a successful updateParameters call on the pool, made directly or through
\* submitParameterUpdate or finalizeEpoch, by the pool's controller or
\* epochManager; a direct call from any other address is rejected, with
\* OnlyController whenever its curveMode argument is one of the enum's values;
\* swap, addLiquidity, removeLiquidity and collectProtocolFees never change them.
C5_OnlyGovernanceChangesParams ==
    [][
        /\ ParamsChanged =>
             /\ lastCall'.op \in ParameterPaths
             /\ lastCall'.err = OK
             /\ Authorised(PoolCaller)
        /\ lastCall'.op = "updateParameters" /\ ~Authorised(lastCall'.sender) =>
             /\ lastCall'.err # OK
             /\ (lastCall'.args[3] <= MAX_CURVE_MODE => lastCall'.err = "OnlyController")
        /\ lastCall'.op = "submitParameterUpdate" /\ lastCall'.err = OK =>
             Authorised(CTRL)
        /\ lastCall'.op \in LiquidityPaths => ~ParamsChanged]_vars

\* C5 as stated: every direct call from an address that is neither controller
\* nor epochManager is rejected with OnlyController.
C5_AsStated ==
    [][lastCall'.op = "updateParameters" /\ ~Authorised(lastCall'.sender) =>
         lastCall'.err = "OnlyController"]_vars

\* The pool's controller has just changed the parameters by a direct call.
C5_Witness ==
    /\ lastCall.op = "updateParameters"
    /\ lastCall.err = OK
    /\ lastCall.sender = pool.controller
    /\ lastCall.sender # pool.epochManager
    /\ pool.feeBps = lastCall.args[1]
    /\ pool.feeBps # InitialFeeBps

ParamsInRange ==
    /\ pool.feeBps <= MAX_FEE_BPS
    /\ pool.curveMode \in {Normal, Defensive, VolatilityAdaptive}
    /\ \A id \in DOMAIN em.epochProposals :
         \A i \in 1..Len(em.epochProposals[id]) :
            /\ em.epochProposals[id][i].feeBps <= MAX_FEE_BPS
            /\ em.epochProposals[id][i].curveMode <= MAX_CURVE_MODE

\* The step is a call that carries a fee above 500 or a curve mode above 2.
OutOfRangeCall ==
    /\ lastCall'.op \in {"updateParameters", "submitParameterUpdate", "submitProposal"}
    /\ lastCall'.args[1] > MAX_FEE_BPS \/ lastCall'.args[3] > MAX_CURVE_MODE

\* Errors of the checks that come before the range checks.
EarlierErrors ==
    {"Paused", "NotRegistered", "CooldownActive", "OnlyController",
     "EpochNotActive", "AlreadyProposed", "AgentNotRegistered"}

\* C6 (as amended): in every reachable state pool.feeBps <= 500 and
\* pool.curveMode is Normal, Defensive or VolatilityAdaptive, and so is every
\* stored proposal that finalizeEpoch may apply; a call carrying a fee above
\* 500 or a mode above 2 is rejected and changes nothing (no clamping): with
\* FeeTooHigh or InvalidCurveMode by AgentController, with FeeTooHigh by the
\* pool, and with a revert that names no error by EpochManager.submitProposal
\* and by the pool for a mode outside the enum.
C6_ParamsInRange ==
    /\ []ParamsInRange
    /\ [][OutOfRangeCall =>
            /\ lastCall'.err # OK
            /\ pool' = pool /\ em' = em /\ ctrl' = ctrl
            /\ (lastCall'.err \notin EarlierErrors =>
                 lastCall'.err =
                    IF lastCall'.op = "submitParameterUpdate"
                    THEN IF lastCall'.args[1] > MAX_FEE_BPS THEN "FeeTooHigh"
                         ELSE "InvalidCurveMode"
                    ELSE IF lastCall'.op = "updateParameters"
                              /\ lastCall'.args[3] <= MAX_CURVE_MODE
                    THEN "FeeTooHigh"
                    ELSE "revert")]_vars

\* C6 as stated: the range holds and every out-of-range call that gets as far
\* as the range checks is rejected with FeeTooHigh or InvalidCurveMode.
C6_AsStated ==
    /\ []ParamsInRange
    /\ [][OutOfRangeCall /\ lastCall'.err \notin EarlierErrors =>
            lastCall'.err \in {"FeeTooHigh", "InvalidCurveMode"}]_vars

\* finalizeEpoch has just put the winner's proposal, whose fee is the largest
\* allowed, into the pool.
C6_Witness ==
    /\ lastCall.op = "finalizeEpoch"
    /\ lastCall.err = OK
    /\ pool.feeBps = MAX_FEE_BPS
    /\ pool.curveMode = Defensive
    /\ pool.feeBps # InitialFeeBps

-----------------------------------------------------------------------------
(* Epoch competition: registered agents propose, the scorer finalizes,     *)
(* blocks pass.                                                            *)

\* <<agents, scores>> as the scorer may pass them: matching, all-zero, tied,
\* tied at zero, a duplicate, a mismatched length
ScoreInputs ==
    {<<<<"a1">>, <<5000>>>>, <<<<"a1">>, <<0>>>>, <<<<"a2">>, <<5000>>>>,
     <<<<"a1", "a2">>, <<5000, 8000>>>>, <<<<"a2", "a1">>, <<5000, 5000>>>>,
     <<<<"a1", "a2">>, <<0, 0>>>>,
     <<<<"a1", "a1">>, <<5000, 8000>>>>, <<<<"a1", "a2">>, <<5000>>>>}

EpochAgentNext ==
    \/ \E a \in Agents : RegisterAgent(a, InitialMinBond)
    \/ SubmitProposal("a1", 100, 6000, Defensive)
    \/ SubmitProposal("a2", 200, 4000, VolatilityAdaptive)

EpochScorerNext ==
    \/ \E x \in ScoreInputs : FinalizeEpoch(SCORER, em.currentEpochId, x[1], x[2])
    \/ \E x \in {<<<<"a1">>, <<5000>>>>, <<<<"a2", "a1">>, <<5000, 5000>>>>} :
           FinalizeEpoch(SCORER, em.currentEpochId - 1, x[1], x[2])
    \/ FinalizeEpoch("a1", em.currentEpochId, <<"a1">>, <<5000>>)

NextEpoch ==
    \/ Tick
    \/ EpochAgentNext
    \/ EpochScorerNext

SpecEpoch == InitDeployed /\ [][NextEpoch]_vars

\* The step is a call of finalizeEpoch(epochId, agents, scores).
FinalizeCall == lastCall'.op = "finalizeEpoch"

FinalizeSucceeded == FinalizeCall /\ lastCall'.err = OK

\* a proposed <<feeBps, curveBeta, curveMode>> in epoch id
ProposedBy(a, id) ==
    { <<em.epochProposals[id][i].feeBps, em.epochProposals[id][i].curveBeta,
        em.epochProposals[id][i].curveMode>> :
        i \in { j \in 1..Len(em.epochProposals[id]) : em.epochProposals[id][j].agent = a } }

\* C7: after every successful finalizeEpoch the recorded winner is a scored
\* agent whose score is the greatest submitted, winnerScore is that score, and
\* the pool's feeBps, curveBeta and curveMode are the tuple that winner
\* proposed in the epoch, whatever scores the scorer supplies.
C7_WinnerTakesPool ==
    [][FinalizeSucceeded =>
         LET id == lastCall'.args[1]
             agents == lastCall'.args[2]
             scores == lastCall'.args[3]
             w == em'.epochs[id].winner
         IN  /\ \E i \in 1..Len(agents) :
                  /\ agents[i] = w
                  /\ scores[i] = em'.epochs[id].winnerScore
                  /\ \A j \in 1..Len(scores) : scores[j] <= scores[i]
             /\ <<pool'.feeBps, pool'.curveBeta, pool'.curveMode>> \in ProposedBy(w, id)]_vars

\* C8: finalizeEpoch(epochId, ...) is rejected whenever the current time is
\* earlier than that epoch's endTime.
C8_FinalizeOnlyAfterEnd ==
    [][FinalizeCall /\ now < em.epochs[lastCall'.args[1]].endTime =>
         lastCall'.err # OK]_vars

\* C9: once an epoch is finalized it stays finalized and its winner and
\* winnerScore never change; a finalizeEpoch by the scorer for a finalized
\* epoch is rejected with AlreadyFinalized; a finalizeEpoch by anyone but the
\* scorer is rejected with NotScorer and changes no contract state.
C9_FinalizationIrreversible ==
    [][/\ \A id \in EpochIds :
            em.epochs[id].finalized =>
              /\ em'.epochs[id].finalized
              /\ em'.epochs[id].winner = em.epochs[id].winner
              /\ em'.epochs[id].winnerScore = em.epochs[id].winnerScore
       /\ FinalizeCall /\ lastCall'.sender = em.scorer
            /\ em.epochs[lastCall'.args[1]].finalized =>
              lastCall'.err = "AlreadyFinalized"
       /\ FinalizeCall /\ lastCall'.sender # em.scorer =>
              /\ lastCall'.err = "NotScorer"
              /\ UNCHANGED <<pool, ctrl, em, balances>>]_vars

\* The scorer has just tried to finalize again an epoch that has a winner.
C9_Witness ==
    /\ lastCall.op = "finalizeEpoch"
    /\ lastCall.sender = em.scorer
    /\ lastCall.err = "AlreadyFinalized"
    /\ em.epochs[lastCall.args[1]].finalized
    /\ em.epochs[lastCall.args[1]].winner \in Agents
    /\ em.epochs[lastCall.args[1]].proposalCount = 2

\* the greatest of the scores passed to finalizeEpoch
MaxScore(scores) == CHOOSE m \in {scores[i] : i \in 1..Len(scores)} :
                        \A j \in 1..Len(scores) : scores[j] <= m

\* the positions holding the greatest score
TopPositions(scores) == {i \in 1..Len(scores) : scores[i] = MaxScore(scores)}

\* C17: when several agents share the highest score passed to a successful
\* finalizeEpoch, the recorded winner is the one of them that comes first in
\* agents[], whatever the order of the proposals.
C17_TieGoesToFirstListed ==
    [][FinalizeSucceeded /\ Cardinality(TopPositions(lastCall'.args[3])) > 1 =>
         LET agents == lastCall'.args[2]
             top == TopPositions(lastCall'.args[3])
             first == CHOOSE i \in top : \A j \in top : i <= j
         IN  em'.epochs[lastCall'.args[1]].winner = agents[first]]_vars

\* C10: in every reachable state, the winner of every finalized epoch that
\* had proposals is an address that proposed in that epoch.
C10_WinnerIsProposer ==
    \A id \in EpochIds :
        em.epochs[id].finalized /\ em.epochs[id].proposalCount > 0 =>
            em.epochs[id].winner \in em.hasProposed[id]

-----------------------------------------------------------------------------
(* Rewards: the owner sets and funds the epoch reward, agents propose, the  *)
(* scorer finalizes, and accounts try to claim.                            *)

\* The owner sets the reward to zero or one and funds the escrow; a1
\* registers and proposes; the scorer names the proposer, nobody (a zero
\* score), or an account that did not propose; a1 and a2 claim the current
\* and the previous epoch; the owner hands the ownership to a2, which
\* renounces it.
NextReward ==
    \/ Tick
    \/ \E x \in {<<OWNER, "a2">>, <<"a2", ZERO>>} : TransferOwnershipEm(x[1], x[2])
    \/ RenounceOwnershipEm("a2")
    \/ \E v \in {0, 1} : SetEpochReward(OWNER, v)
    \/ FundRewards(OWNER, 2)
    \/ RegisterAgent("a1", InitialMinBond)
    \/ SubmitProposal("a1", 100, 6000, Defensive)
    \/ \E x \in {<<<<"a1">>, <<5000>>>>, <<<<"a1">>, <<0>>>>, <<<<"a2">>, <<5000>>>>} :
           FinalizeEpoch(SCORER, em.currentEpochId, x[1], x[2])
    \/ \E a \in Agents, id \in {em.currentEpochId, em.currentEpochId - 1} :
           ClaimReward(a, id)

SpecReward == InitDeployed /\ [][NextReward]_vars

\* The step is a call of claimReward(epochId).
ClaimCall == lastCall'.op = "claimReward"

ClaimSucceeded == ClaimCall /\ lastCall'.err = OK

\* C11: claimReward succeeds at most once per epoch.  A successful claim is
\* by the recorded winner of a finalized epoch, with a non-zero reward, who
\* has not claimed before, and it records the claim; a recorded claim is
\* never forgotten and an epoch never has more than one; a second claim by
\* the winner is rejected with NothingToClaim; a non-winner is rejected.
C11_ClaimAtMostOnce ==
    [][
       /\ ClaimSucceeded =>
            (LET id == lastCall'.args[1]
                 a == lastCall'.sender
             IN  /\ em.epochs[id].finalized
                 /\ em.epochs[id].winner = a
                 /\ em.epochRewardAmount > 0
                 /\ a \notin em.rewardClaimed[id]
                 /\ em'.rewardClaimed[id] = em.rewardClaimed[id] \cup {a}
                 /\ balances'.emNative = balances.emNative - em.epochRewardAmount)
       /\ \A id \in EpochIds :
            /\ em.rewardClaimed[id] \subseteq em'.rewardClaimed[id]
            /\ Cardinality(em'.rewardClaimed[id]) <= 1
            /\ (em'.rewardClaimed[id] # em.rewardClaimed[id] => ClaimSucceeded)
       /\ (ClaimCall /\ lastCall'.sender \in em.rewardClaimed[lastCall'.args[1]] =>
            lastCall'.err = "NothingToClaim")
       /\ (ClaimCall /\ em.epochs[lastCall'.args[1]].winner # lastCall'.sender =>
            lastCall'.err \in {"NothingToClaim", "EpochNotActive"})
      ]_vars

\* The winner, already paid, claims the same epoch again while the escrow
\* could still pay, and is turned away.
C11_Witness ==
    /\ lastCall.op = "claimReward"
    /\ lastCall.err = "NothingToClaim"
    /\ lastCall.sender \in em.rewardClaimed[lastCall.args[1]]
    /\ em.epochs[lastCall.args[1]].winner = lastCall.sender
    /\ em.epochRewardAmount > 0
    /\ balances.emNative >= em.epochRewardAmount

-----------------------------------------------------------------------------
(* Proposals: a1 registers, deregisters and proposes inside and outside    *)
(* the bounds, a2 registers and proposes, the scorer finalizes the current *)
(* epoch and tries the epochs next to it, blocks pass.                     *)

NextProposal ==
    \/ Tick
    \/ \E a \in Agents : RegisterAgent(a, InitialMinBond)
    \/ DeregisterAgent("a1")
    \/ \E x \in {<<MAX_FEE_BPS, 6000, Defensive>>, <<MAX_FEE_BPS + 1, 6000, Defensive>>,
                  <<100, 6000, MAX_CURVE_MODE + 1>>} :
           SubmitProposal("a1", x[1], x[2], x[3])
    \/ SubmitProposal("a2", 200, 4000, VolatilityAdaptive)
    \/ \E x \in {<<<<"a1">>, <<5000>>>>, <<<<"a1", "a2">>, <<5000, 8000>>>>} :
           FinalizeEpoch(SCORER, em.currentEpochId, x[1], x[2])
    \/ \E id \in {em.currentEpochId - 1, em.currentEpochId + 1} :
           FinalizeEpoch(SCORER, id, <<"a1">>, <<5000>>)

SpecProposal == InitDeployed /\ [][NextProposal]_vars

\* The step is a call of submitProposal(feeBps, curveBeta, curveMode).
ProposalCall == lastCall'.op = "submitProposal"

ProposalAccepted == ProposalCall /\ lastCall'.err = OK

ProposalInBounds == lastCall'.args[1] <= 500 /\ lastCall'.args[3] <= 2

\* the current epoch, before the call
CurrentEpoch == em.epochs[em.currentEpochId]

\* C12: a submitProposal is accepted only if, in the epoch that is current
\* when the proposal is recorded, startTime <= now < endTime, the caller had
\* not proposed, the caller is active in the AgentController and feeBps <= 500
\* and curveMode <= 2; with the current epoch's window open these conditions
\* are also sufficient.  A rejected call fails with EpochNotActive,
\* AlreadyProposed, AgentNotRegistered or a bare revert and changes nothing.
C12_ProposalAcceptance ==
    [][ProposalCall =>
         LET a == lastCall'.sender
             id == em'.currentEpochId
         IN  /\ (lastCall'.err = OK =>
                    /\ em'.epochs[id].startTime <= now
                    /\ now < em'.epochs[id].endTime
                    /\ a \notin em.hasProposed[id]
                    /\ ctrl.agents[a].active
                    /\ ProposalInBounds)
             /\ (/\ now < CurrentEpoch.endTime
                 /\ a \notin em.hasProposed[em.currentEpochId]
                 /\ ctrl.agents[a].active
                 /\ ProposalInBounds
                 => lastCall'.err = OK)
             /\ (lastCall'.err # OK =>
                    /\ lastCall'.err \in {"EpochNotActive", "AlreadyProposed",
                                          "AgentNotRegistered", "revert"}
                    /\ UNCHANGED <<em, pool, ctrl, balances>>)
             /\ (now < CurrentEpoch.endTime /\ a \in em.hasProposed[em.currentEpochId]
                    => lastCall'.err = "AlreadyProposed")
             /\ (/\ now < CurrentEpoch.endTime
                 /\ a \notin em.hasProposed[em.currentEpochId]
                 /\ ~ctrl.agents[a].active
                 => lastCall'.err = "AgentNotRegistered")]_vars

\* A deregistered agent that proposed in the previous epoch has just been
\* turned away, in bounds, not yet a proposer of the open current epoch.
C12_Witness ==
    /\ lastCall.op = "submitProposal"
    /\ lastCall.err = "AgentNotRegistered"
    /\ lastCall.args[1] <= 500 /\ lastCall.args[3] <= 2
    /\ now < em.epochs[em.currentEpochId].endTime
    /\ lastCall.sender \notin em.hasProposed[em.currentEpochId]
    /\ em.currentEpochId > 1
    /\ lastCall.sender \in em.hasProposed[em.currentEpochId - 1]

\* the agents of the proposals recorded for epoch id, in order
ProposalAgents(e, id) == [i \in 1..Len(e.epochProposals[id]) |-> e.epochProposals[id][i].agent]

\* each agent at most once in every epoch's proposal list, which agrees with
\* hasProposed, epochAgents and proposalCount
OneProposalPerAgent ==
    \A id \in EpochIds :
        /\ \A i, j \in 1..Len(em.epochProposals[id]) :
               em.epochProposals[id][i].agent = em.epochProposals[id][j].agent => i = j
        /\ {em.epochProposals[id][i].agent : i \in 1..Len(em.epochProposals[id])}
               = em.hasProposed[id]
        /\ ProposalAgents(em, id) = em.epochAgents[id]
        /\ Len(em.epochProposals[id]) = em.epochs[id].proposalCount

\* C13: in every epoch each agent has at most one recorded proposal, and
\* every recorded proposal (agent, feeBps, curveBeta, curveMode, timestamp)
\* stays as it was submitted through every later step: further proposals,
\* finalization, later epochs, deregistration.
C13_ProposalsImmutable ==
    /\ []OneProposalPerAgent
    /\ [][\A id \in EpochIds :
             /\ Len(em'.epochProposals[id]) >= Len(em.epochProposals[id])
             /\ SubSeq(em'.epochProposals[id], 1, Len(em.epochProposals[id]))
                    = em.epochProposals[id]]_vars

\* Epoch 1 was finalized with two proposals, a1's the first and made in an
\* earlier block, a later epoch is open, and a1 has just deregistered.
C13_Witness ==
    /\ em.currentEpochId > 1
    /\ em.epochs[1].finalized
    /\ Len(em.epochProposals[1]) = 2
    /\ em.epochProposals[1][1].agent = "a1"
    /\ em.epochProposals[1][1].timestamp < now
    /\ ~ctrl.agents["a1"].active
    /\ lastCall.op = "deregisterAgent" /\ lastCall.err = OK

\* an epoch record exists once _startNextEpoch or the constructor wrote it
EpochExists(id) == em.epochs[id].epochId = id /\ id >= 1

ExactlyOneCurrent ==
    /\ em.currentEpochId >= 1
    /\ \A id \in EpochIds :
          /\ (1 <= id /\ id < em.currentEpochId =>
                 EpochExists(id) /\ em.epochs[id].finalized)
          /\ (id = em.currentEpochId =>
                 EpochExists(id) /\ ~em.epochs[id].finalized)
          /\ (id > em.currentEpochId \/ id = 0 => em.epochs[id] = NoEpoch)

\* C14: in every reachable state exactly one epoch is current: every epoch
\* below currentEpochId is finalized, the epoch at currentEpochId exists and
\* is not finalized, no epoch with a larger id exists; currentEpochId starts
\* at 1 and a step leaves it alone or raises it by exactly 1.
C14_ExactlyOneCurrentEpoch ==
    /\ em.currentEpochId = 1
    /\ []ExactlyOneCurrent
    /\ [][em'.currentEpochId \in {em.currentEpochId, em.currentEpochId + 1}]_vars

\* The scorer has just finalized epoch 1, which had a proposal, opening
\* epoch 2.
C14_Witness ==
    /\ lastCall.op = "finalizeEpoch" /\ lastCall.err = OK
    /\ em.currentEpochId = 2
    /\ em.epochs[1].finalized /\ em.epochs[1].proposalCount > 0
    /\ ~em.epochs[2].finalized

-----------------------------------------------------------------------------
(* Epochs that end empty or unscored: the owner changes the epoch length,  *)
(* a1 proposes inside and outside the bounds, a2 proposes before and after *)
(* registering, the scorer finalizes, blocks pass.                         *)

NextAdvance ==
    \/ Tick
    \/ \E d \in {0, 1} : SetEpochDuration(OWNER, d)
    \/ \E a \in Agents : RegisterAgent(a, InitialMinBond)
    \/ \E f \in {100, MAX_FEE_BPS + 1} : SubmitProposal("a1", f, 6000, Defensive)
    \/ SubmitProposal("a2", 200, 4000, VolatilityAdaptive)
    \/ FinalizeEpoch(SCORER, em.currentEpochId, <<"a1">>, <<5000>>)

SpecAdvance == InitDeployed /\ [][NextAdvance]_vars

\* The current epoch's window has elapsed with no proposal, before the call.
EndedEmpty == now >= CurrentEpoch.endTime /\ CurrentEpoch.proposalCount = 0

\* the caller is active and the proposed values are within the bounds
EligibleCall == ctrl.agents[lastCall'.sender].active /\ ProposalInBounds

\* what an auto-advancing submitProposal leaves behind
AdvancedAndRecorded ==
    LET id == em.currentEpochId
    IN  /\ lastCall'.err = OK
        /\ em'.epochs[id] = [em.epochs[id] EXCEPT !.finalized = TRUE]
        /\ em'.epochs[id].winner = ZERO
        /\ em'.currentEpochId = id + 1
        /\ em'.epochs[id + 1] =
              [epochId |-> id + 1, startTime |-> now, endTime |-> now + em.epochDuration,
               winner |-> ZERO, winnerScore |-> 0, proposalCount |-> 1,
               finalized |-> FALSE]
        /\ em'.epochProposals[id + 1] =
              <<[agent |-> lastCall'.sender, feeBps |-> lastCall'.args[1],
                 curveBeta |-> lastCall'.args[2], curveMode |-> lastCall'.args[3],
                 timestamp |-> now]>>
        /\ em'.hasProposed[id + 1] = {lastCall'.sender}
        /\ em'.epochProposals[id] = <<>>
        /\ lastCall'.sender # em.scorer

\* C15 as stated: when the current epoch's endTime has passed and it has no
\* proposals, the next submitProposal by an eligible agent finalizes it with
\* no winner, opens epoch id+1 over [now, now + epochDuration) and records the
\* proposal there, without the scorer; a rejected call applies no advance.
C15_AsStated ==
    [][ProposalCall /\ EndedEmpty =>
         /\ (EligibleCall => AdvancedAndRecorded)
         /\ (lastCall'.err # OK => UNCHANGED em)]_vars

\* C15: the same, for epochDuration > 0; with epochDuration = 0 the epoch
\* that the advance would open has an empty window, so the call is rejected
\* with EpochNotActive and the advance is not applied.
C15_AutoAdvance ==
    [][ProposalCall /\ EndedEmpty =>
         /\ (EligibleCall /\ em.epochDuration > 0 => AdvancedAndRecorded)
         /\ (EligibleCall /\ em.epochDuration = 0 => lastCall'.err = "EpochNotActive")
         /\ (~EligibleCall => lastCall'.err # OK)
         /\ (lastCall'.err # OK => UNCHANGED em)]_vars

\* A proposal has just been accepted into epoch 2, which it opened itself:
\* epoch 1 ended with no proposals and no winner.
C15_Witness ==
    /\ lastCall.op = "submitProposal" /\ lastCall.err = OK
    /\ em.currentEpochId = 2
    /\ em.epochs[1].finalized /\ em.epochs[1].proposalCount = 0
    /\ em.epochs[1].winner = ZERO
    /\ em.epochs[2].startTime = now
    /\ em.epochs[2].proposalCount = 1

\* An eligible agent that has not proposed in the current epoch has just
\* been turned away with EpochNotActive from an epoch whose window has
\* elapsed and which is not finalized.
ClosedUnfinalizedObserved ==
    /\ lastCall.op = "submitProposal"
    /\ lastCall.err = "EpochNotActive"
    /\ ctrl.agents[lastCall.sender].active
    /\ lastCall.args[1] <= 500 /\ lastCall.args[3] <= 2
    /\ lastCall.sender \notin em.hasProposed[em.currentEpochId]
    /\ now >= em.epochs[em.currentEpochId].endTime
    /\ ~em.epochs[em.currentEpochId].finalized

\* C16 as stated: callers never observe a closed-but-not-finalized epoch.
C16_AsStated == ~ClosedUnfinalizedObserved

\* C16: a closed-but-not-finalized epoch is observed only when the epoch has
\* proposals waiting for the scorer, or epochDuration is 0; an epoch that
\* ended empty under a positive epochDuration never rejects an eligible
\* agent.
C16_ClosedOnlyWhenUnscored ==
    ClosedUnfinalizedObserved =>
        \/ em.epochs[em.currentEpochId].proposalCount > 0
        \/ em.epochDuration = 0

\* a2, registered, has just been refused by epoch 1, which has a1's proposal,
\* is past its end and still awaits the scorer.
C16_Witness ==
    /\ ClosedUnfinalizedObserved
    /\ em.epochs[em.currentEpochId].proposalCount > 0
    /\ em.epochDuration > 0

-----------------------------------------------------------------------------
(* The TWAP accumulators, across blocks.                                   *)

\* Deposits, withdrawals and swaps of one provider, accepted and rejected,
\* spread over several blocks; the provider signs permits for the owner
\* that expire after the deployment block, and the owner moves one of the
\* provider's shares under them.
NextTwap ==
    \/ Tick
    \/ \E d \in {<<2000, 2000>>, <<2000, 4000>>, <<500, 0>>} :
           AddLiquidity("a1", d[1], d[2])
    \/ \E l \in {500, MaxReserve} : RemoveLiquidity("a1", l)
    \/ \E x \in {<<TRUE, 200, 0>>, <<FALSE, 200, 0>>, <<TRUE, 0, 0>>,
                 <<TRUE, 200, MaxReserve>>} :
           Swap("a1", x[1], x[2], x[3])
    \/ \E x \in {<<OWNER, "a1", 0>>, <<OWNER, OWNER, 0>>, <<OWNER, "a1", 1>>,
                 <<ZERO, "a1", 0>>} :
           Permit(OWNER, "a1", x[1], 1, DeployTime, x[2], x[3])
    \/ \E x \in {<<OWNER, "a1", OWNER, 1>>, <<OWNER, "a1", ZERO, 1>>} :
           TransferFrom(x[1], x[2], x[3], x[4])
    \/ Approve("a1", ZERO, 1)

SpecTwap == Init /\ [][NextTwap]_vars

\* Deposits, withdrawals and swaps of one provider, accepted and rejected,
\* in blocks before and after block.timestamp passes 2^32: afterwards the
\* truncated timestamp is below, at or above the stored blockTimestampLast.
NextTwapClock ==
    \/ Tick
    \/ \E t \in {0, now} : ClockWraps(t)
    \/ \E d \in {<<2000, 4000>>, <<500, 0>>} : AddLiquidity("a1", d[1], d[2])
    \/ \E l \in {500, MaxReserve} : RemoveLiquidity("a1", l)
    \/ \E x \in {<<TRUE, 200, 0>>, <<TRUE, 0, 0>>, <<TRUE, 200, MaxReserve>>} :
           Swap("a1", x[1], x[2], x[3])

SpecTwapClock == Init /\ [][NextTwapClock]_vars

\* The step is a swap, a deposit or a withdrawal.
TwapCall == lastCall'.op \in {"swap", "addLiquidity", "removeLiquidity"}

\* C19: over swaps, deposits and withdrawals in successive blocks, also
\* across the block in which the uint32 timestamp starts again from zero,
\* neither price accumulator ever decreases (the sums stay below 2^256 here,
\* so no wrap-around of an accumulator occurs), and a rejected call changes
\* neither accumulator.
C19_TwapMonotone ==
    [][/\ BigLeq(pool.price0CumulativeLast, pool'.price0CumulativeLast)
       /\ BigLeq(pool.price1CumulativeLast, pool'.price1CumulativeLast)
       /\ (TwapCall /\ lastCall'.err # OK) =>
              /\ pool'.price0CumulativeLast = pool.price0CumulativeLast
              /\ pool'.price1CumulativeLast = pool.price1CumulativeLast]_vars

\* A swap has just been accepted in a block after block.timestamp passed
\* 2^32, its truncated timestamp below the stored one: each accumulator has
\* grown by a price times a wrapped uint32 difference (at least 2^111 * 2^31,
\* which plain differences of the timestamps used here cannot add up to), and
\* blockTimestampLast is the truncated timestamp.
C19_Witness ==
    /\ lastCall.op = "swap" /\ lastCall.err = OK
    /\ era > 0
    /\ Len(pool.price0CumulativeLast) >= Q112_LIMBS + UINT32_LIMBS
    /\ Len(pool.price1CumulativeLast) >= Q112_LIMBS + UINT32_LIMBS
    /\ pool.price0CumulativeLast # pool.price1CumulativeLast
    /\ pool.blockTimestampLast = now

\* C20: every successful swap, deposit or withdrawal on non-zero reserves
\* adds floor(reserve1 * 2^112 / reserve0) * dt to price0CumulativeLast and
\* floor(reserve0 * 2^112 / reserve1) * dt to price1CumulativeLast, with the
\* reserves of before the call and dt the time since the previous successful
\* swap, deposit or withdrawal.
C20_TwapGrowth ==
    [][(TwapCall /\ lastCall'.err = OK /\ pool.reserve0 > 0 /\ pool.reserve1 > 0) =>
         /\ pool'.price0CumulativeLast =
                BigWrap(BigAdd(pool.price0CumulativeLast,
                               PriceTimesElapsed(pool.reserve1, pool.reserve0,
                                                 BigFromNat(now - twapPoint))))
         /\ pool'.price1CumulativeLast =
                BigWrap(BigAdd(pool.price1CumulativeLast,
                               PriceTimesElapsed(pool.reserve0, pool.reserve1,
                                                 BigFromNat(now - twapPoint))))]_vars

-----------------------------------------------------------------------------
(* LP shares and reserves: first deposits around the MINIMUM_LIQUIDITY     *)
(* threshold, withdrawals of whole positions, and one swap under the       *)
(* largest fee settings.                                                   *)

\* a1 makes first deposits below, at and above the MINIMUM_LIQUIDITY
\* threshold and withdraws its position or one share; a2 joins and leaves
\* with a balanced deposit, or transfers its shares to a1 or to the sink;
\* the owner wires a controller ("a2") and sets the protocol fee; the
\* controller sets the largest fee with the Defensive curve; a1 trades.
NextLiquidity ==
    \/ \E d \in {<<250, 4100>>, <<1000, 1000>>, <<1001, 1001>>, <<2000, 4000>>} :
           AddLiquidity("a1", d[1], d[2])
    \/ AddLiquidity("a2", 500, 500)
    \/ \E l \in {pool.balanceOf["a1"], 1} : RemoveLiquidity("a1", l)
    \/ RemoveLiquidity("a2", pool.balanceOf["a2"])
    \/ \E to \in {"a1", SINK} : \E v \in {pool.balanceOf["a2"]} \ {0} : Transfer("a2", to, v)
    \/ SetController(OWNER, "a2")
    \/ SetProtocolFee(OWNER, MAX_PROTOCOL_FEE_BPS)
    \/ UpdateParameters("a2", MAX_FEE_BPS, InitialCurveBeta, Defensive, "a2")
    \/ \E x \in {<<TRUE, 3638>>, <<FALSE, 200>>} : Swap("a1", x[1], x[2], 0)
    \/ CollectProtocolFees("a1")

SpecLiquidity == Init /\ [][NextLiquidity]_vars

\* C21: in every reachable state either there are no LP shares and both
\* reserves are zero, or there are shares and both reserves are positive.
C21_ReservesMatchSupply ==
    \/ pool.totalSupply = 0 /\ pool.reserve0 = 0 /\ pool.reserve1 = 0
    \/ pool.totalSupply > 0 /\ pool.reserve0 > 0 /\ pool.reserve1 > 0

\* The step is an addLiquidity call on a pool without shares.
FirstDeposit == lastCall'.op = "addLiquidity" /\ pool.totalSupply = 0

\* s is floor(sqrt(n))
IsFloorSqrt(s, n) == s * s <= n /\ n < (s + 1) * (s + 1)

\* C22: a successful first deposit mints floor(sqrt(actual0 * actual1)) - 1000
\* shares to the caller and 1000 to the sink; a first deposit whose root is at
\* most 1000 is rejected; and once shares exist the sink holds at least 1000
\* shares (more when a holder transfers shares to it) and the supply stays at
\* or above them through every later step, withdrawals of whole positions
\* included.
C22_MinimumLiquidityLocked ==
    /\ [](\/ pool.totalSupply = 0 /\ pool.balanceOf[SINK] = 0
          \/ pool.totalSupply >= MINIMUM_LIQUIDITY
               /\ pool.balanceOf[SINK] >= MINIMUM_LIQUIDITY)
    /\ [][/\ (FirstDeposit /\ lastCall'.err = OK) =>
                \E s \in (MINIMUM_LIQUIDITY + 1)..MaxReserve :
                    /\ IsFloorSqrt(s, lastCall'.args[1] * lastCall'.args[2])
                    /\ lastCall'.ret = s - MINIMUM_LIQUIDITY
                    /\ pool'.balanceOf[lastCall'.sender] = s - MINIMUM_LIQUIDITY
                    /\ pool'.balanceOf[SINK] = MINIMUM_LIQUIDITY
                    /\ pool'.totalSupply = s
          /\ (/\ FirstDeposit
              /\ \E s \in 0..MINIMUM_LIQUIDITY :
                     IsFloorSqrt(s, lastCall'.args[1] * lastCall'.args[2])) =>
                lastCall'.err # OK /\ pool' = pool /\ balances' = balances
          /\ pool.totalSupply > 0 => pool'.totalSupply >= MINIMUM_LIQUIDITY]_vars

\* After a first deposit of (2000, 4000), whose product is not a square, the
\* depositor has just withdrawn its whole position: only the sink's shares
\* are left.
C22_Witness ==
    /\ lastCall.op = "removeLiquidity" /\ lastCall.err = OK
    /\ lastCall.args[1] = 1828
    /\ pool.totalSupply = MINIMUM_LIQUIDITY
    /\ pool.balanceOf[SINK] = MINIMUM_LIQUIDITY
    /\ \A a \in Agents : pool.balanceOf[a] = 0
    /\ pool.reserve0 > 0 /\ pool.reserve1 > 0

-----------------------------------------------------------------------------
(* Share proportionality: a second provider joins the seeded pool and      *)
(* leaves again.                                                           *)

\* The deploy script up to its seeding of the pool: the deployer is scorer
\* and owner, the epoch reward is set, both callers are wired and the pool is
\* seeded by the deployer with equal amounts of both tokens; the reward
\* escrow is not funded yet.  The event counter counts the deposits and
\* withdrawals made after the deployment.
InitSeeded ==
    /\ now = DeployTime
    /\ pool = AddLiquidityPool(DeployedPool, OWNER, SeedAmount, SeedAmount, DeployTime)
    /\ ctrl = InitCtrl
    /\ em = ScriptEm
    /\ balances = [InitBalances EXCEPT !.pool0 = SeedAmount, !.pool1 = SeedAmount]
    /\ proposedAt = [a \in Users |-> 0]
    /\ liquidityEvents = 0
    /\ twapPoint = DeployTime
    /\ callback = NoCallback
    /\ timelock = InitTimelock
    /\ queuedAt = NoQueueing
    /\ breaker = InitBreaker
    /\ checks = 0
    /\ era = 0
    /\ lastCall = NoCall

\* A trader moves the price either way; a2 deposits balanced, unbalanced and
\* dust amounts and withdraws its whole balance or one share; the deployer
\* withdraws part of the seed, transfers shares to a2 and approves a1, with
\* and without limit, and a1 moves the deployer's shares to a2.
NextRoundTrip ==
    \/ \E x \in {<<TRUE, 200>>, <<FALSE, 1777>>} : Swap("a1", x[1], x[2], 0)
    \/ \E d \in {<<1000, 1000>>, <<1, 1>>, <<300, 7>>, <<3, 1000>>, <<1100, 909>>,
                 <<2999, 2999>>} :
           AddLiquidity("a2", d[1], d[2])
    \/ \E l \in {pool.balanceOf["a2"], 1} : RemoveLiquidity("a2", l)
    \/ RemoveLiquidity(OWNER, 500)
    \/ \E x \in {<<OWNER, "a2", 500>>, <<"a2", ZERO, 1>>} : Transfer(x[1], x[2], x[3])
    \/ \E v \in {500, UNLIMITED} : Approve(OWNER, "a1", v)
    \/ TransferFrom("a1", OWNER, "a2", 500)

SpecRoundTrip == InitSeeded /\ [][NextRoundTrip]_vars

\* The step is a successful deposit into a pool that already has shares.
NonInitialDeposit ==
    /\ lastCall'.op = "addLiquidity" /\ lastCall'.err = OK
    /\ pool.totalSupply > 0

\* The step is a successful withdrawal, by the depositor of the preceding
\* transaction, of exactly the shares that deposit minted.
WithdrawsLastDeposit ==
    /\ lastCall.op = "addLiquidity" /\ lastCall.err = OK
    /\ lastCall'.op = "removeLiquidity" /\ lastCall'.err = OK
    /\ lastCall'.sender = lastCall.sender
    /\ lastCall'.args[1] = lastCall.ret

\* C23: a non-initial addLiquidity(a0, a1) mints the largest L with
\* L * r0 <= a0 * S and L * r1 <= a1 * S, that is min(floor(a0 * S / r0),
\* floor(a1 * S / r1)), for the supply S and reserves r0, r1 of before the
\* call; withdrawing exactly those shares in the next transaction returns
\* at most a0 of token0 and at most a1 of token1.
C23_ShareProportionality ==
    [][/\ NonInitialDeposit =>
            LET a0 == lastCall'.args[1]
                a1 == lastCall'.args[2]
                L == lastCall'.ret
            IN  /\ L * pool.reserve0 <= a0 * pool.totalSupply
                /\ L * pool.reserve1 <= a1 * pool.totalSupply
                /\ \/ (L + 1) * pool.reserve0 > a0 * pool.totalSupply
                   \/ (L + 1) * pool.reserve1 > a1 * pool.totalSupply
                /\ pool'.balanceOf[lastCall'.sender] = pool.balanceOf[lastCall'.sender] + L
                /\ pool'.totalSupply = pool.totalSupply + L
                /\ (L * pool'.reserve0) \div pool'.totalSupply <= a0
                /\ (L * pool'.reserve1) \div pool'.totalSupply <= a1
       /\ WithdrawsLastDeposit =>
            /\ lastCall'.ret[1] <= lastCall.args[1]
            /\ lastCall'.ret[2] <= lastCall.args[2]
            /\ balances'.pool0 = balances.pool0 - lastCall'.ret[1]
            /\ balances'.pool1 = balances.pool1 - lastCall'.ret[2]]_vars

\* After a swap moved the price, a2 deposited and has just withdrawn all the
\* shares of that deposit, receiving less of token1 than it put in.
C23_Witness ==
    /\ lastCall.op = "removeLiquidity" /\ lastCall.err = OK
    /\ lastCall.sender = "a2"
    /\ pool.balanceOf["a2"] = 0
    /\ pool.tradeCount = 1
    /\ liquidityEvents = 2
    /\ lastCall.args[1] = 909
    /\ lastCall.ret[2] < 909

-----------------------------------------------------------------------------
(* The pause flags of the pool and of the AgentController.                 *)

\* The owner (and, in vain, an agent) pauses and unpauses either contract
\* while a2 trades, deposits and withdraws and a1 goes through every agent
\* operation of the seeded deployment, with the whole bond at stake; the
\* pool's ownership passes to a1, which renounces it.
NextPause ==
    \/ \E x \in {<<OWNER, "a1">>, <<"a1", ZERO>>} : TransferOwnershipPool(x[1], x[2])
    \/ RenounceOwnershipPool("a1")
    \/ \E sender \in {OWNER, "a1"} : PausePool(sender)
    \/ UnpausePool(OWNER)
    \/ PauseCtrl(OWNER)
    \/ UnpauseCtrl(OWNER)
    \/ Swap("a2", TRUE, 3500, 0)
    \/ AddLiquidity("a2", 3000, 3000)
    \/ RemoveLiquidity("a2", pool.balanceOf["a2"])
    \/ CollectProtocolFees("a2")
    \/ RegisterAgent("a1", MaxBond)
    \/ DeregisterAgent("a1")
    \/ TopUpBond("a1", MaxBond)
    \/ SetBondToken(OWNER, BOND_TOKEN)
    \/ DepositTokenBond("a1", MaxBond)
    \/ WithdrawTokenBond("a1")
    \/ SlashAgent(OWNER, "a1", MaxBond)
    \/ SubmitParameterUpdate("a1", InitialFeeBps + 10, InitialCurveBeta, Defensive)

SpecPause == InitSeeded /\ [][NextPause]_vars

\* The state-mutating operations of the pool and of the AgentController
\* that accounts other than the owner's configuration calls go through.
PoolMutating == {"swap", "addLiquidity", "removeLiquidity", "collectProtocolFees"}
CtrlMutating == {"registerAgent", "deregisterAgent", "topUpBond", "depositTokenBond",
                 "withdrawTokenBond", "submitParameterUpdate", "slashAgent"}

\* C24: while the pool's pause flag is set every state-mutating pool call is
\* rejected and leaves the pool's parameters as they are, and while the
\* AgentController's pause flag is set every state-mutating agent operation
\* is rejected.
C24_PauseRejectsAll ==
    [][/\ (pool.paused /\ lastCall'.op \in PoolMutating) => lastCall'.err # OK
       /\ (pool.paused /\ pool'.paused) =>
              <<pool'.feeBps, pool'.curveBeta, pool'.curveMode>>
                  = <<pool.feeBps, pool.curveBeta, pool.curveMode>>
       /\ (ctrl.paused /\ lastCall'.op \in CtrlMutating) => lastCall'.err # OK]_vars

-----------------------------------------------------------------------------
(* Rejected pool calls.                                                    *)

\* The step is a rejected swap, deposit or withdrawal.
PoolCallRejected == TwapCall /\ lastCall'.err # OK

\* The step is a swap that passes the checks in front of _updateTWAP and
\* asks for at least the whole output reserve, which no swap pays out.
SwapBelowMinimum ==
    /\ lastCall'.op = "swap"
    /\ ~pool.paused
    /\ lastCall'.args[2] > 0
    /\ pool.reserve0 > 0 /\ pool.reserve1 > 0
    /\ lastCall'.args[3] >= (IF lastCall'.args[1] THEN pool.reserve1 ELSE pool.reserve0)

\* C25: a rejected swap, addLiquidity or removeLiquidity leaves the pool's
\* storage (reserves, both TWAP accumulators, blockTimestampLast, protocol-fee
\* accruals, tradeCount, cumulative volumes, LP balances) and the pool's token
\* balances, hence the caller's, exactly as before; in particular a swap whose
\* output is below minAmountOut is rejected with InsufficientOutput and
\* changes nothing, although _updateTWAP and the input transfer ran first.
C25_RejectedCallsChangeNothing ==
    [][/\ PoolCallRejected =>
              /\ pool' = pool
              /\ balances' = balances
              /\ UNCHANGED <<ctrl, em, now>>
       /\ SwapBelowMinimum =>
              /\ lastCall'.err = "InsufficientOutput"
              /\ pool' = pool
              /\ balances' = balances]_vars

\* A swap has just been rejected with InsufficientOutput in a block later
\* than the last accumulation, on non-zero reserves: when it stopped at the
\* check, the call had advanced both accumulators and blockTimestampLast
\* and had taken its input, and nothing of that is left.
C25_Witness ==
    /\ lastCall.op = "swap" /\ lastCall.err = "InsufficientOutput"
    /\ pool.reserve0 > 0 /\ pool.reserve1 > 0
    /\ 0 < pool.blockTimestampLast /\ pool.blockTimestampLast < now
    /\ LET r == SwapRun(pool, balances, lastCall.args[1], lastCall.args[2],
                        lastCall.args[3], now)
       IN  /\ r.err = "InsufficientOutput"
           /\ r.pool.blockTimestampLast = now
           /\ r.pool.price0CumulativeLast # pool.price0CumulativeLast
           /\ r.pool.price1CumulativeLast # pool.price1CumulativeLast
           /\ r.balances # balances

-----------------------------------------------------------------------------
(* The agent registry: registration, bonds in native currency and in the   *)
(* bond token, slashing.                                                   *)

\* a1 registers with too little, the minimum or the largest bond, tops up,
\* deposits and withdraws a token bond, updates the pool, proposes in the
\* epoch competition and deregisters; the owner sets the bond token and
\* slashes part or all of a bond; a2 never registers, sends the controller a
\* plain transfer, and is handed the ownership, which it renounces.
NextBond ==
    \/ ReceiveCtrl("a2", 1)
    \/ \E x \in {<<OWNER, "a2">>, <<"a2", ZERO>>} : TransferOwnershipCtrl(x[1], x[2])
    \/ RenounceOwnershipCtrl("a2")
    \/ \E v \in {0, InitialMinBond, MaxBond} : RegisterAgent("a1", v)
    \/ \E a \in Agents : DeregisterAgent(a)
    \/ TopUpBond("a1", 1)
    \/ SetBondToken(OWNER, BOND_TOKEN)
    \/ DepositTokenBond("a1", MaxBond)
    \/ \E a \in Agents : WithdrawTokenBond(a)
    \/ \E x \in {<<OWNER, "a1", 1>>, <<OWNER, "a1", MaxBond>>, <<OWNER, "a2", 1>>,
                 <<"a2", "a1", 1>>} :
           SlashAgent(x[1], x[2], x[3])
    \/ SubmitParameterUpdate("a1", InitialFeeBps + 10, InitialCurveBeta, Defensive)
    \/ SubmitProposal("a1", InitialFeeBps, InitialCurveBeta, Normal)

SpecBond == InitDeployed /\ [][NextBond]_vars

\* the call of this step and the caller's record before it
Caller == lastCall'.sender
CallerInfo == ctrl.agents[lastCall'.sender]

\* C26: an agent's active flag changes only by its own successful
\* registerAgent (inactive to active) or deregisterAgent (active to
\* inactive); on the unpaused controller registerAgent is rejected with
\* AlreadyRegistered for an active caller and with BondTooLow for an inactive
\* caller sending less than minBond, and deregisterAgent is rejected with
\* NotRegistered for an inactive caller; slashAgent, topUpBond,
\* depositTokenBond, withdrawTokenBond, submitParameterUpdate and
\* submitProposal never change any agent's flag.
C26_ActiveFlagTransitions ==
    [][/\ \A a \in Users :
              ctrl'.agents[a].active # ctrl.agents[a].active =>
                  /\ lastCall'.sender = a /\ lastCall'.err = OK
                  /\ lastCall'.op = (IF ctrl.agents[a].active
                                     THEN "deregisterAgent" ELSE "registerAgent")
       /\ (lastCall'.op = "registerAgent" /\ ~ctrl.paused) =>
              /\ lastCall'.err =
                     (IF CallerInfo.active THEN "AlreadyRegistered"
                      ELSE IF lastCall'.args[1] < ctrl.minBond THEN "BondTooLow"
                      ELSE OK)
              /\ lastCall'.err = OK => ctrl'.agents[Caller].active
       /\ (lastCall'.op = "deregisterAgent" /\ ~ctrl.paused) =>
              /\ lastCall'.err = (IF CallerInfo.active THEN OK ELSE "NotRegistered")
              /\ lastCall'.err = OK => ~ctrl'.agents[Caller].active
       /\ lastCall'.op \in {"slashAgent", "topUpBond", "depositTokenBond",
                            "withdrawTokenBond", "submitParameterUpdate",
                            "submitProposal"} =>
              \A a \in Users : ctrl'.agents[a].active = ctrl.agents[a].active]_vars

\* a1 registered, deregistered and has just registered again; a2 never
\* registered.
C26_Witness ==
    /\ lastCall.op = "registerAgent" /\ lastCall.err = OK
    /\ ctrl.agents["a1"].active
    /\ Len(ctrl.agentList) = 2
    /\ ~ctrl.agents["a2"].active

\* the controller's record of agent a
Info(a) == ctrl.agents[a]

\* C27: deregisterAgent pays the caller exactly the recorded bondAmount,
\* which is the registration bond plus the top-ups less the slashes, zeroes it
\* and leaves tokenBondAmount alone; withdrawTokenBond is rejected with
\* StillActive for an active caller and with ZeroAmount for an inactive one
\* without a recorded token bond, and otherwise pays exactly the recorded
\* token bond and zeroes it, so that a repeated withdrawal finds nothing.
C27_BondPayouts ==
    [][/\ (lastCall'.op = "deregisterAgent" /\ lastCall'.err = OK) =>
              /\ balances'.ctrlNative = balances.ctrlNative - CallerInfo.bondAmount
              /\ balances'.ctrlToken = balances.ctrlToken
              /\ ctrl'.agents[Caller].bondAmount = 0
              /\ ctrl'.agents[Caller].tokenBondAmount = CallerInfo.tokenBondAmount
       /\ \A a \in Users :
              ctrl'.agents[a].bondAmount # Info(a).bondAmount =>
                  /\ lastCall'.err = OK
                  /\ \/ /\ lastCall'.op = "registerAgent" /\ Caller = a
                        /\ ctrl'.agents[a].bondAmount = lastCall'.args[1]
                     \/ /\ lastCall'.op = "topUpBond" /\ Caller = a
                        /\ ctrl'.agents[a].bondAmount = Info(a).bondAmount + lastCall'.args[1]
                     \/ /\ lastCall'.op = "slashAgent" /\ lastCall'.args[1] = a
                        /\ ctrl'.agents[a].bondAmount = Info(a).bondAmount - lastCall'.args[2]
                     \/ /\ lastCall'.op = "deregisterAgent" /\ Caller = a
       /\ lastCall'.op = "withdrawTokenBond" =>
              /\ CallerInfo.active => lastCall'.err = "StillActive"
              /\ (~CallerInfo.active /\ CallerInfo.tokenBondAmount = 0) =>
                     lastCall'.err = "ZeroAmount"
              /\ lastCall'.err = OK =>
                     /\ ~CallerInfo.active /\ CallerInfo.tokenBondAmount > 0
                     /\ balances'.ctrlToken = balances.ctrlToken - CallerInfo.tokenBondAmount
                     /\ balances'.ctrlNative = balances.ctrlNative
                     /\ ctrl'.agents[Caller].tokenBondAmount = 0
              /\ lastCall'.err # OK => balances' = balances /\ ctrl' = ctrl
       /\ (lastCall'.op # "withdrawTokenBond" \/ lastCall'.err # OK) =>
              balances'.ctrlToken >= balances.ctrlToken]_vars

\* a1 deposited a token bond and deregistered, which returned its whole
\* native bond, and has just withdrawn the token bond: the controller holds
\* nothing any more.
C27_Witness ==
    /\ lastCall.op = "withdrawTokenBond" /\ lastCall.sender = "a1"
    /\ lastCall.err = OK
    /\ ~ctrl.agents["a1"].active
    /\ ctrl.agents["a1"].bondAmount = 0
    /\ ctrl.agents["a1"].tokenBondAmount = 0
    /\ balances.ctrlToken = 0
    /\ balances.ctrlNative = 0

\* the target and the amount of the slashAgent call of this step
SlashTarget == lastCall'.args[1]
SlashAmount == lastCall'.args[2]

\* C28: slashAgent by the owner on an active agent with amount <= bondAmount
\* takes exactly amount off that agent's bond and out of the controller's
\* native balance and changes nothing else of the controller (active,
\* lastUpdateTime, tokenBondAmount, the other agents); it is refused with
\* InsufficientSlashAmount above the bond and NotRegistered for an inactive
\* target, and a refused call changes nothing.  minBond is not checked
\* again: an active agent with a bond below minBond whose first update is
\* within the limits has it accepted.
C28_SlashKeepsAgentActive ==
    [][ /\ (lastCall'.op = "slashAgent" /\ Caller = ctrl.owner) =>
            /\ (Info(SlashTarget).active /\ SlashAmount <= Info(SlashTarget).bondAmount) =>
                   /\ lastCall'.err = OK
                   /\ ctrl' = [ctrl EXCEPT !.agents[SlashTarget].bondAmount = @ - SlashAmount]
                   /\ ctrl'.agents[SlashTarget].active
                   /\ balances' = [balances EXCEPT !.ctrlNative = @ - SlashAmount]
            /\ (Info(SlashTarget).active /\ SlashAmount > Info(SlashTarget).bondAmount) =>
                   lastCall'.err = "InsufficientSlashAmount"
            /\ ~Info(SlashTarget).active => lastCall'.err = "NotRegistered"
        /\ (lastCall'.op = "slashAgent" /\ lastCall'.err # OK) =>
               UNCHANGED <<ctrl, balances, pool>>
        /\ ( /\ lastCall'.op = "submitParameterUpdate"
             /\ CallerInfo.active /\ ~ctrl.paused
             /\ CallerInfo.bondAmount < ctrl.minBond
             /\ CallerInfo.lastUpdateTime = 0
             /\ lastCall'.args[1] <= MAX_FEE_BPS
             /\ lastCall'.args[3] <= MAX_CURVE_MODE
             /\ AbsDiff(lastCall'.args[1], pool.feeBps) <= ctrl.maxFeeDelta
             /\ AbsDiff(lastCall'.args[2], pool.curveBeta) <= ctrl.maxBetaDelta ) =>
               /\ lastCall'.err = OK
               /\ pool'.feeBps = lastCall'.args[1]
               /\ ctrl'.agents[Caller].active
      ]_vars

\* a1 was slashed to a zero bond, below the minimum, and has just had its
\* first parameter update accepted.
C28_Witness ==
    /\ lastCall.op = "submitParameterUpdate" /\ lastCall.sender = "a1"
    /\ lastCall.err = OK
    /\ ctrl.agents["a1"].active
    /\ ctrl.agents["a1"].bondAmount = 0
    /\ ctrl.minBond > 0
    /\ balances.ctrlNative = 0
    /\ pool.feeBps = InitialFeeBps + 10

-----------------------------------------------------------------------------
(* Validation order of submitParameterUpdate.                              *)

\* a1 registers, deregisters and submits updates that break none, one or
\* several of the limits at a time, during and outside its cooldown, with
\* the controller paused or not; a2 never registers and breaks every limit.
NextOrder ==
    \/ Tick
    \/ RegisterAgent("a1", InitialMinBond)
    \/ DeregisterAgent("a1")
    \/ PauseCtrl(OWNER)
    \/ UnpauseCtrl(OWNER)
    \/ \E x \in { <<pool.feeBps + 10, pool.curveBeta, Normal>>,
                  <<MAX_FEE_BPS + 1, pool.curveBeta, Normal>>,
                  <<MAX_FEE_BPS + 1, pool.curveBeta, MAX_CURVE_MODE + 1>>,
                  <<pool.feeBps + ctrl.maxFeeDelta + 1, pool.curveBeta, MAX_CURVE_MODE + 1>>,
                  <<pool.feeBps + ctrl.maxFeeDelta + 1,
                    pool.curveBeta + ctrl.maxBetaDelta + 1, Normal>>,
                  <<pool.feeBps, pool.curveBeta + ctrl.maxBetaDelta + 1, Normal>> } :
           SubmitParameterUpdate("a1", x[1], x[2], x[3])
    \/ SubmitParameterUpdate("a2", MAX_FEE_BPS + 1,
                             pool.curveBeta + ctrl.maxBetaDelta + 1, MAX_CURVE_MODE + 1)

SpecOrder == InitDeployed /\ [][NextOrder]_vars

\* the errors in the order the claim gives to the rules
RuleErrors ==
    <<"Paused", "NotRegistered", "CooldownActive", "FeeTooHigh",
      "InvalidCurveMode", "DeltaExceedsLimit", "DeltaExceedsLimit">>

\* rule k is broken by the submitParameterUpdate call of this step
RuleBroken(k) ==
    CASE k = 1 -> ctrl.paused
      [] k = 2 -> ~CallerInfo.active
      [] k = 3 -> /\ CallerInfo.lastUpdateTime # 0
                  /\ now < CallerInfo.lastUpdateTime + ctrl.cooldownSeconds
      [] k = 4 -> lastCall'.args[1] > 500
      [] k = 5 -> lastCall'.args[3] > 2
      [] k = 6 -> AbsDiff(lastCall'.args[1], pool.feeBps) > ctrl.maxFeeDelta
      [] k = 7 -> AbsDiff(lastCall'.args[2], pool.curveBeta) > ctrl.maxBetaDelta

BrokenRules == {k \in 1..7 : RuleBroken(k)}

FirstBrokenRule == CHOOSE k \in BrokenRules : \A j \in BrokenRules : k <= j

\* C29: a submitParameterUpdate that breaks several rules reports the error
\* of the first broken one in the order paused, not registered, cooldown,
\* fee cap, curve-mode cap, fee delta, beta delta; a call that breaks none is
\* accepted; a rejected call leaves the controller (lastUpdateTime,
\* updateCount) and the pool's parameters as they were.
C29_ValidationOrder ==
    [][ lastCall'.op = "submitParameterUpdate" =>
          /\ BrokenRules = {} => lastCall'.err = OK
          /\ BrokenRules # {} => lastCall'.err = RuleErrors[FirstBrokenRule]
          /\ lastCall'.err # OK => UNCHANGED <<ctrl, pool>>
      ]_vars

\* a1 is in its cooldown and has just asked for a fee of 501, above the cap
\* and further from the pool's fee than the delta allows: CooldownActive.
C29_Witness ==
    /\ lastCall.op = "submitParameterUpdate" /\ lastCall.sender = "a1"
    /\ lastCall.args[1] = MAX_FEE_BPS + 1
    /\ lastCall.err = "CooldownActive"
    /\ ~ctrl.paused
    /\ ctrl.agents["a1"].active
    /\ ctrl.agents["a1"].lastUpdateTime # 0
    /\ now < ctrl.agents["a1"].lastUpdateTime + ctrl.cooldownSeconds
    /\ ctrl.updateCount["a1"] = 1
    /\ AbsDiff(MAX_FEE_BPS + 1, pool.feeBps) > ctrl.maxFeeDelta

-----------------------------------------------------------------------------
(* Transfers to a recipient that calls back.  A native transfer runs the   *)
(* recipient's code, and so does a token transfer when the token notifies  *)
(* the recipient; the recipient may call the paying contract again before  *)
(* the paying function has returned.                                       *)

\* nonReentrant that lets a nested call through
NonReentrantErrorOpen(entered) == OK

\* the nonReentrant modifier (OpenZeppelin ReentrancyGuard); entered: a
\* guarded function of the same contract has not returned yet
NonReentrantError(entered) ==
    IF entered THEN "ReentrancyGuardReentrantCall" ELSE OK

\* the modifiers a nested call of the controller meets, in their declared
\* order: slashAgent is onlyOwner nonReentrant, the other paying functions
\* start with nonReentrant
CtrlGuardError(c, who, op) ==
    IF op = "slashAgent" /\ OnlyOwnerError(c, who) # OK THEN OnlyOwnerError(c, who)
    ELSE NonReentrantError(TRUE)

\* what a call leaves: its error, the contract's storage and the balances
Outcome(err, st, bal) == [err |-> err, st |-> st, bal |-> bal]

\* The controller's paying functions past their guard, called by who on
\* storage c: the storage they write before the transfer and the balances
\* after it.
CtrlPayoutCall(c, bal, who, op, args) ==
    CASE op = "deregisterAgent" ->
           LET e == DeregisterAgentError(c, who, bal.ctrlNative)
           IN  IF e # OK THEN Outcome(e, c, bal)
               ELSE Outcome(OK, DeregisterAgentCtrl(c, who),
                            [bal EXCEPT !.ctrlNative = @ - c.agents[who].bondAmount])
      [] op = "withdrawTokenBond" ->
           LET e == WithdrawTokenBondError(c, who, bal.ctrlToken)
           IN  IF e # OK THEN Outcome(e, c, bal)
               ELSE Outcome(OK, WithdrawTokenBondCtrl(c, who),
                            [bal EXCEPT !.ctrlToken = @ - c.agents[who].tokenBondAmount])
      [] op = "slashAgent" ->
           LET e == SlashAgentError(c, who, args[1], args[2], bal.ctrlNative)
           IN  IF e # OK THEN Outcome(e, c, bal)
               ELSE Outcome(OK, SlashAgentCtrl(c, args[1], args[2]),
                            [bal EXCEPT !.ctrlNative = @ - args[2]])

\* EpochManager.claimReward past its guard
EmPayoutCall(e, bal, who, op, args) ==
    LET err == ClaimRewardError(e, who, args[1], bal.emNative)
    IN  IF err # OK THEN Outcome(err, e, bal)
        ELSE Outcome(OK, ClaimRewardEm(e, who, args[1]),
                     [bal EXCEPT !.emNative = @ - e.epochRewardAmount])

\* The pool's paying functions past their guard, at time t
PoolPayoutCall(p, bal, who, op, args, t) ==
    CASE op = "removeLiquidity" ->
           LET e == RemoveLiquidityError(p, who, args[1])
           IN  IF e # OK THEN Outcome(e, p, bal)
               ELSE Outcome(OK, RemoveLiquidityPool(p, who, args[1], t),
                            [bal EXCEPT !.pool0 = @ - RemoveAmount0(p, args[1]),
                                        !.pool1 = @ - RemoveAmount1(p, args[1])])
      [] op = "collectProtocolFees" ->
           Outcome(OK, CollectProtocolFeesPool(p),
                   [bal EXCEPT !.pool0 = @ - p.protocolFeeAccum0,
                               !.pool1 = @ - p.protocolFeeAccum1])

\* the record of one call made by a recipient: what it called, what it got
\* and the storage of the paying contract it found
Nested(r, err, seen) == [op |-> r.op, err |-> err, seen |-> seen]

\* A recipient: the function of the paying contract it calls when it is
\* given control ("none": it calls nothing), with which arguments, and
\* whether it reverts when that call is refused.
Recipient(op, args, bubble) == [op |-> op, args |-> args, bubble |-> bubble]
Plain == Recipient("none", <<>>, FALSE)

\* AgentController: o is the outcome of the paying function up to and
\* including its transfer, sent is whether it transfers at all, who its
\* recipient, failure the error of a transfer the recipient reverts.
CtrlPayoutTx(op, sender, args, o, sent, who, r, failure) ==
    IF o.err # OK THEN Reverted(op, sender, args, o.err)
    ELSE IF ~sent \/ r.op = "none"
    THEN /\ ctrl' = o.st
         /\ balances' = o.bal
         /\ lastCall' = Receipt(op, sender, args, OK, 0)
         /\ callback' = NoCallback
         /\ UNCHANGED offPool
         /\ UNCHANGED <<now, pool, em, proposedAt, liquidityEvents, twapPoint>>
    ELSE LET g == CtrlGuardError(o.st, who, r.op)
             n == IF g # OK THEN Outcome(g, o.st, o.bal)
                  ELSE CtrlPayoutCall(o.st, o.bal, who, r.op, r.args)
         IN  /\ callback' = <<Nested(r, n.err, o.st)>>
             /\ UNCHANGED offPool
             /\ IF n.err # OK /\ r.bubble
                THEN /\ lastCall' = Receipt(op, sender, args, failure, 0)
                     /\ UNCHANGED <<now, pool, ctrl, em, balances, proposedAt,
                                    liquidityEvents, twapPoint>>
                ELSE /\ ctrl' = n.st
                     /\ balances' = n.bal
                     /\ lastCall' = Receipt(op, sender, args, OK, 0)
                     /\ UNCHANGED <<now, pool, em, proposedAt, liquidityEvents, twapPoint>>

DeregisterAgentCallback(sender, r) ==
    CtrlPayoutTx("deregisterAgent", sender, <<>>,
                 CtrlPayoutCall(ctrl, balances, sender, "deregisterAgent", <<>>),
                 ctrl.agents[sender].bondAmount > 0, sender, r, "TransferFailed")

WithdrawTokenBondCallback(sender, r) ==
    CtrlPayoutTx("withdrawTokenBond", sender, <<>>,
                 CtrlPayoutCall(ctrl, balances, sender, "withdrawTokenBond", <<>>),
                 TRUE, sender, r, "revert")

\* owner().call{value: amount} runs the owner's code for a zero amount too
SlashAgentCallback(sender, agent, amount, r) ==
    CtrlPayoutTx("slashAgent", sender, <<agent, amount>>,
                 CtrlPayoutCall(ctrl, balances, sender, "slashAgent", <<agent, amount>>),
                 TRUE, ctrl.owner, r, "TransferFailed")

ClaimRewardCallback(sender, epochId, r) ==
    LET o == EmPayoutCall(em, balances, sender, "claimReward", <<epochId>>)
        args == <<epochId>>
    IN  IF o.err # OK THEN Reverted("claimReward", sender, args, o.err)
        ELSE IF r.op = "none"
        THEN /\ em' = o.st
             /\ balances' = o.bal
             /\ lastCall' = Receipt("claimReward", sender, args, OK, 0)
             /\ callback' = NoCallback
             /\ UNCHANGED offPool
             /\ UNCHANGED <<now, pool, ctrl, proposedAt, liquidityEvents, twapPoint>>
        ELSE LET g == NonReentrantError(TRUE)
                 n == IF g # OK THEN Outcome(g, o.st, o.bal)
                      ELSE EmPayoutCall(o.st, o.bal, sender, r.op, r.args)
             IN  /\ callback' = <<Nested(r, n.err, o.st)>>
                 /\ UNCHANGED offPool
                 /\ IF n.err # OK /\ r.bubble
                    THEN /\ lastCall' = Receipt("claimReward", sender, args,
                                                "TransferFailed", 0)
                         /\ UNCHANGED <<now, pool, ctrl, em, balances, proposedAt,
                                        liquidityEvents, twapPoint>>
                    ELSE /\ em' = n.st
                         /\ balances' = n.bal
                         /\ lastCall' = Receipt("claimReward", sender, args, OK, 0)
                         /\ UNCHANGED <<now, pool, ctrl, proposedAt, liquidityEvents,
                                        twapPoint>>

\* EvoPool: the paying function makes sent transfers (token0, then token1),
\* and the recipient is given control at each.
PoolPayoutTx(op, sender, args, ret, o, sent, who, r) ==
    IF o.err # OK THEN Reverted(op, sender, args, o.err)
    ELSE LET g == NonReentrantError(TRUE)
             n1 == IF sent = 0 \/ r.op = "none" THEN o
                   ELSE IF g # OK THEN Outcome(g, o.st, o.bal)
                   ELSE PoolPayoutCall(o.st, o.bal, who, r.op, r.args, now)
             stop == n1.err # OK /\ r.bubble
             n2 == IF sent < 2 \/ r.op = "none" \/ stop THEN n1
                   ELSE IF g # OK THEN Outcome(g, n1.st, n1.bal)
                   ELSE PoolPayoutCall(n1.st, n1.bal, who, r.op, r.args, now)
         IN  /\ callback' = IF sent = 0 \/ r.op = "none" THEN NoCallback
                            ELSE IF sent = 1 \/ stop THEN <<Nested(r, n1.err, o.st)>>
                            ELSE <<Nested(r, n1.err, o.st), Nested(r, n2.err, n1.st)>>
             /\ UNCHANGED offPool
             /\ IF n2.err # OK /\ r.bubble
                THEN /\ lastCall' = Receipt(op, sender, args, "revert", 0)
                     /\ UNCHANGED <<now, pool, ctrl, em, balances, proposedAt,
                                    liquidityEvents, twapPoint>>
                ELSE /\ pool' = n2.st
                     /\ balances' = n2.bal
                     /\ lastCall' = Receipt(op, sender, args, OK, ret)
                     /\ liquidityEvents' = IF op = "removeLiquidity"
                                           THEN liquidityEvents + 1 ELSE liquidityEvents
                     /\ twapPoint' = IF op = "removeLiquidity" THEN now ELSE twapPoint
                     /\ UNCHANGED <<now, ctrl, em, proposedAt>>

RemoveLiquidityCallback(sender, liquidity, r) ==
    /\ liquidityEvents < MaxLiquidityEvents
    /\ LET o == PoolPayoutCall(pool, balances, sender, "removeLiquidity", <<liquidity>>, now)
       IN  PoolPayoutTx("removeLiquidity", sender, <<liquidity>>,
                        IF o.err = OK
                        THEN <<RemoveAmount0(pool, liquidity), RemoveAmount1(pool, liquidity)>>
                        ELSE 0,
                        o, 2, sender, r)

\* if (fee0 > 0) token0.safeTransfer(treasury, fee0), and the same for fee1
CollectProtocolFeesCallback(sender, r) ==
    PoolPayoutTx("collectProtocolFees", sender, <<>>, 0,
                 PoolPayoutCall(pool, balances, sender, "collectProtocolFees", <<>>, now),
                 (IF pool.protocolFeeAccum0 > 0 THEN 1 ELSE 0)
                     + (IF pool.protocolFeeAccum1 > 0 THEN 1 ELSE 0),
                 pool.treasury, r)

\* recipients that call nothing, or call one of the paying functions of the
\* contract that is paying them, and swallow or pass on its refusal
CtrlRecipients ==
    {Plain} \cup
    {Recipient(x[1], x[2], b) :
        x \in {<<"deregisterAgent", <<>>>>, <<"withdrawTokenBond", <<>>>>,
               <<"slashAgent", <<"a1", 2>>>>},
        b \in BOOLEAN}

EmRecipients(epochId) ==
    {Plain} \cup {Recipient("claimReward", <<epochId>>, b) : b \in BOOLEAN}

PoolRecipients ==
    {Plain} \cup
    {Recipient(x[1], x[2], b) :
        x \in {<<"removeLiquidity", <<1>>>>, <<"collectProtocolFees", <<>>>>},
        b \in BOOLEAN}

\* The deployment as the deploy script leaves it (callers wired, pool
\* seeded, epoch reward set, reward escrow funded), after the owner has
\* switched the protocol fee on (setProtocolFee) and set the bond token
\* (setBondToken).
RewardFunding == 2

InitConfigured ==
    /\ now = DeployTime
    /\ pool = [AddLiquidityPool(DeployedPool, OWNER, SeedAmount, SeedAmount, DeployTime)
                  EXCEPT !.protocolFeeBps = MAX_PROTOCOL_FEE_BPS]
    /\ ctrl = [InitCtrl EXCEPT !.bondToken = BOND_TOKEN]
    /\ em = ScriptEm
    /\ balances = [InitBalances EXCEPT !.pool0 = SeedAmount, !.pool1 = SeedAmount,
                                       !.emNative = RewardFunding]
    /\ proposedAt = [a \in Users |-> 0]
    /\ liquidityEvents = 0
    /\ twapPoint = DeployTime
    /\ callback = NoCallback
    /\ timelock = InitTimelock
    /\ queuedAt = NoQueueing
    /\ breaker = InitBreaker
    /\ checks = 0
    /\ era = 0
    /\ lastCall = NoCall

\* a1 bonds natively and in tokens, is slashed, deregisters and withdraws;
\* a1 proposes, wins the epoch and claims; a trade leaves protocol fees,
\* which are collected, and the deployer withdraws part of the seed.  Every
\* recipient of a payment may call back.
NextReentrancy ==
    \/ RegisterAgent("a1", MaxBond)
    \/ DepositTokenBond("a1", MaxBond)
    \/ \E r \in CtrlRecipients : DeregisterAgentCallback("a1", r)
    \/ \E r \in CtrlRecipients : WithdrawTokenBondCallback("a1", r)
    \/ \E r \in CtrlRecipients : SlashAgentCallback(OWNER, "a1", 2, r)
    \/ SubmitProposal("a1", InitialFeeBps, InitialCurveBeta, Normal)
    \/ FinalizeEpoch(OWNER, em.currentEpochId, <<"a1">>, <<5000>>)
    \/ \E r \in EmRecipients(1) : ClaimRewardCallback("a1", 1, r)
    \/ Swap("a2", TRUE, 3500, 0)
    \/ \E r \in PoolRecipients : RemoveLiquidityCallback(OWNER, 500, r)
    \/ \E r \in PoolRecipients : CollectProtocolFeesCallback("a2", r)

SpecReentrancy == InitConfigured /\ [][NextReentrancy]_vars

\* the functions that send assets out
PayoutOps ==
    {"deregisterAgent", "slashAgent", "withdrawTokenBond", "claimReward",
     "removeLiquidity", "collectProtocolFees"}

\* the storage, after this step, of the contract that function op belongs to
PayingStorageAfter(op) ==
    IF op \in {"deregisterAgent", "slashAgent", "withdrawTokenBond"} THEN ctrl'
    ELSE IF op = "claimReward" THEN em'
    ELSE pool'

\* C30: in deregisterAgent, slashAgent, withdrawTokenBond, claimReward,
\* removeLiquidity and collectProtocolFees every write is made before the
\* transfer (the storage the recipient finds when it is given control is the
\* storage the transaction leaves), every call the recipient makes back into
\* a paying function of the same contract is refused (with
\* ReentrancyGuardReentrantCall, or, for slashAgent called by a recipient
\* that is not the owner, with OwnableUnauthorizedAccount before the guard
\* is reached), and whatever the recipient does a successful call pays
\* exactly the amount recorded before it, once, and clears the record; a
\* failed call changes nothing.  So the controller, which is sent no plain
\* transfer here, always holds exactly the native bonds it records and at
\* least the token bonds it records, and the pool at least its reserves and
\* accrued fees.
C30_NoDoublePayout ==
    /\ [](/\ balances.ctrlNative
               = ctrl.agents["a1"].bondAmount + ctrl.agents["a2"].bondAmount
          /\ balances.ctrlToken
               >= ctrl.agents["a1"].tokenBondAmount + ctrl.agents["a2"].tokenBondAmount
          /\ balances.emNative >= 0
          /\ balances.pool0 >= pool.reserve0 + pool.protocolFeeAccum0
          /\ balances.pool1 >= pool.reserve1 + pool.protocolFeeAccum1)
    /\ [][ lastCall'.op \in PayoutOps =>
            /\ \A i \in DOMAIN callback' :
                  callback'[i].err =
                      IF /\ callback'[i].op = "slashAgent"
                         /\ lastCall'.op \in {"deregisterAgent", "withdrawTokenBond"}
                         /\ Caller # ctrl.owner
                      THEN "OwnableUnauthorizedAccount"
                      ELSE "ReentrancyGuardReentrantCall"
            /\ lastCall'.err # OK => UNCHANGED <<pool, ctrl, em, balances>>
            /\ lastCall'.err = OK =>
                 /\ \A i \in DOMAIN callback' :
                       callback'[i].seen = PayingStorageAfter(lastCall'.op)
                 /\ lastCall'.op = "deregisterAgent" =>
                       /\ ctrl' = [ctrl EXCEPT !.agents[Caller].active = FALSE,
                                               !.agents[Caller].bondAmount = 0]
                       /\ balances' = [balances EXCEPT
                                          !.ctrlNative = @ - CallerInfo.bondAmount]
                 /\ lastCall'.op = "slashAgent" =>
                       /\ ctrl' = [ctrl EXCEPT
                                      !.agents[SlashTarget].bondAmount = @ - SlashAmount]
                       /\ balances' = [balances EXCEPT !.ctrlNative = @ - SlashAmount]
                 /\ lastCall'.op = "withdrawTokenBond" =>
                       /\ CallerInfo.tokenBondAmount > 0
                       /\ ctrl' = [ctrl EXCEPT !.agents[Caller].tokenBondAmount = 0]
                       /\ balances' = [balances EXCEPT
                                          !.ctrlToken = @ - CallerInfo.tokenBondAmount]
                 /\ lastCall'.op = "claimReward" =>
                       /\ Caller \notin em.rewardClaimed[lastCall'.args[1]]
                       /\ em' = [em EXCEPT
                                    !.rewardClaimed[lastCall'.args[1]] = @ \cup {Caller}]
                       /\ balances' = [balances EXCEPT
                                          !.emNative = @ - em.epochRewardAmount]
                 /\ lastCall'.op = "removeLiquidity" =>
                       LET l == lastCall'.args[1]
                           amount0 == (l * pool.reserve0) \div pool.totalSupply
                           amount1 == (l * pool.reserve1) \div pool.totalSupply
                       IN  /\ pool'.balanceOf[Caller] = pool.balanceOf[Caller] - l
                           /\ pool'.totalSupply = pool.totalSupply - l
                           /\ pool'.reserve0 = pool.reserve0 - amount0
                           /\ pool'.reserve1 = pool.reserve1 - amount1
                           /\ balances' = [balances EXCEPT !.pool0 = @ - amount0,
                                                           !.pool1 = @ - amount1]
                 /\ lastCall'.op = "collectProtocolFees" =>
                       /\ pool' = [pool EXCEPT !.protocolFeeAccum0 = 0,
                                               !.protocolFeeAccum1 = 0]
                       /\ balances' = [balances EXCEPT
                                          !.pool0 = @ - pool.protocolFeeAccum0,
                                          !.pool1 = @ - pool.protocolFeeAccum1]
      ]_vars

\* a1's bond has just gone back to a1, whose code called deregisterAgent
\* again while it was being paid: the call was refused, a1 was already
\* inactive with no bond recorded, and the controller holds nothing.
C30_Witness ==
    /\ lastCall.op = "deregisterAgent" /\ lastCall.sender = "a1"
    /\ lastCall.err = OK
    /\ callback = <<[op |-> "deregisterAgent",
                     err |-> "ReentrancyGuardReentrantCall", seen |-> ctrl]>>
    /\ ~ctrl.agents["a1"].active
    /\ ctrl.agents["a1"].bondAmount = 0
    /\ balances.ctrlNative = 0

-----------------------------------------------------------------------------
\* TimeLock.sol

\* bound: number of distinct transaction hashes ever queued
MaxQueued == 2

\* bound: the latest block at which a hash is queued for the first time
MaxQueueTime == 1

\* bound: the native balance the timelock is given
MaxTimelockBalance == 1

\* keccak256(abi.encode(target, value, signature, data, eta)): the encoding is
\* injective on the five fields and the hash is taken as collision free, so a
\* hash is represented by the encoded tuple
TxHash(target, value, signature, data, eta) == <<target, value, signature, data, eta>>

EtaOf(txHash) == txHash[5]

SetDelayError(tl, sender, newDelay) ==
    IF OnlyOwnerError(tl, sender) # OK THEN OnlyOwnerError(tl, sender)
    ELSE IF DelayOutOfRange(newDelay) THEN "DelayOutOfRange"
    ELSE OK

QueueTransactionError(tl, sender, txHash, t) ==
    IF OnlyOwnerError(tl, sender) # OK THEN OnlyOwnerError(tl, sender)
    ELSE IF EtaOf(txHash) < t + tl.delay THEN "TimelockNotReached"
    ELSE IF txHash \in tl.queuedTransactions THEN "TransactionAlreadyQueued"
    ELSE OK

CancelTransactionError(tl, sender, txHash) ==
    IF OnlyOwnerError(tl, sender) # OK THEN OnlyOwnerError(tl, sender)
    ELSE IF txHash \notin tl.queuedTransactions THEN "TransactionNotQueued"
    ELSE OK

\* executeTransaction without its expiry check
ExecuteTransactionErrorNoExpiry(tl, sender, txHash, t, callErr) ==
    IF OnlyOwnerError(tl, sender) # OK THEN OnlyOwnerError(tl, sender)
    ELSE IF txHash \notin tl.queuedTransactions THEN "TransactionNotQueued"
    ELSE IF t < EtaOf(txHash) THEN "TimelockNotReached"
    ELSE IF callErr # OK THEN "ExecutionFailed"
    ELSE OK

\* callErr is what the target call came back with: success is false for
\* every revert of the target, whatever its reason
ExecuteTransactionError(tl, sender, txHash, t, callErr) ==
    IF OnlyOwnerError(tl, sender) # OK THEN OnlyOwnerError(tl, sender)
    ELSE IF txHash \notin tl.queuedTransactions THEN "TransactionNotQueued"
    ELSE IF t < EtaOf(txHash) THEN "TimelockNotReached"
    ELSE IF t > EtaOf(txHash) + GRACE_PERIOD THEN "TimelockExpired"
    ELSE IF callErr # OK THEN "ExecutionFailed"
    ELSE OK

\* the record of the queueings once txHash has been queued at time t, and
\* once it has been executed
QueuedAtAfterQueue(q, txHash, t) ==
    [h \in DOMAIN q \cup {txHash} |->
        IF h = txHash THEN [at |-> t, executed |-> FALSE] ELSE q[h]]

QueuedAtAfterExecute(q, txHash) ==
    [h \in DOMAIN q \cup {txHash} |->
        IF h = txHash THEN [at |-> IF h \in DOMAIN q THEN q[h].at ELSE 0,
                            executed |-> TRUE]
        ELSE q[h]]

\* ---- target.call{value: value}(callData), the timelock being msg.sender.
\* callData is the selector of the signature followed by data, or data alone
\* when the signature is empty; data is written as the sequence of the
\* arguments it encodes.

\* the contracts of the repository; BOND_TOKEN stands for a token, whose code
\* is not part of it; every other address holds no code
Contracts == {POOL, CTRL, EM, TIMELOCK}
Foreign == {BOND_TOKEN}

\* the external functions of each contract as <<signature, number of
\* arguments>>, the getters of the public variables included
OwnableAbi ==
    {<<"owner()", 0>>, <<"transferOwnership(address)", 1>>, <<"renounceOwnership()", 0>>}

CtrlAbi ==
    OwnableAbi \cup
    {<<"pause()", 0>>, <<"unpause()", 0>>, <<"setMinBond(uint256)", 1>>,
     <<"setCooldown(uint256)", 1>>, <<"setMaxFeeDelta(uint256)", 1>>,
     <<"setMaxBetaDelta(uint256)", 1>>, <<"setBondToken(address)", 1>>,
     <<"registerAgent()", 0>>, <<"deregisterAgent()", 0>>, <<"topUpBond()", 0>>,
     <<"depositTokenBond(uint256)", 1>>, <<"withdrawTokenBond()", 0>>,
     <<"submitParameterUpdate(uint256,uint256,uint8)", 3>>,
     <<"slashAgent(address,uint256,string)", 3>>,
     <<"getAgentInfo(address)", 1>>, <<"getAgentCount()", 0>>,
     <<"pool()", 0>>, <<"bondToken()", 0>>, <<"minBond()", 0>>,
     <<"cooldownSeconds()", 0>>, <<"maxFeeDelta()", 0>>, <<"maxBetaDelta()", 0>>,
     <<"MAX_FEE_BPS()", 0>>, <<"agentList(uint256)", 1>>,
     <<"updateCount(address)", 1>>, <<"paused()", 0>>}

EmAbi ==
    OwnableAbi \cup
    {<<"setScorer(address)", 1>>, <<"setEpochDuration(uint256)", 1>>,
     <<"setEpochReward(uint256)", 1>>,
     <<"submitProposal(uint256,uint256,uint8)", 3>>,
     <<"finalizeEpoch(uint256,address[],uint256[])", 3>>,
     <<"claimReward(uint256)", 1>>,
     <<"getEpochProposals(uint256)", 1>>, <<"getEpochAgents(uint256)", 1>>,
     <<"getCurrentEpoch()", 0>>, <<"getTimeRemaining()", 0>>,
     <<"getAgentStats(address)", 1>>,
     <<"pool()", 0>>, <<"agentController()", 0>>, <<"epochDuration()", 0>>,
     <<"currentEpochId()", 0>>, <<"epochStartTime()", 0>>, <<"scorer()", 0>>,
     <<"epochs(uint256)", 1>>, <<"epochProposals(uint256,uint256)", 2>>,
     <<"hasProposed(uint256,address)", 2>>, <<"agentScores(uint256,address)", 2>>,
     <<"epochAgents(uint256,uint256)", 2>>, <<"epochRewardAmount()", 0>>,
     <<"rewardClaimed(uint256,address)", 2>>, <<"totalScore(address)", 1>>,
     <<"epochsWon(address)", 1>>, <<"epochsParticipated(address)", 1>>}

\* permit's (v, r, s) are written as the account that signed and the nonce it
\* signed
PoolAbi ==
    OwnableAbi \cup
    {<<"setController(address)", 1>>, <<"setEpochManager(address)", 1>>,
     <<"setProtocolFee(uint256)", 1>>, <<"setTreasury(address)", 1>>,
     <<"pause()", 0>>, <<"unpause()", 0>>, <<"collectProtocolFees()", 0>>,
     <<"getReserves()", 0>>, <<"addLiquidity(uint256,uint256)", 2>>,
     <<"removeLiquidity(uint256)", 1>>, <<"swap(bool,uint256,uint256)", 3>>,
     <<"updateParameters(uint256,uint256,uint8,address)", 4>>,
     <<"token0()", 0>>, <<"token1()", 0>>, <<"reserve0()", 0>>, <<"reserve1()", 0>>,
     <<"feeBps()", 0>>, <<"curveBeta()", 0>>, <<"curveMode()", 0>>,
     <<"controller()", 0>>, <<"epochManager()", 0>>, <<"tradeCount()", 0>>,
     <<"cumulativeVolume0()", 0>>, <<"cumulativeVolume1()", 0>>,
     <<"price0CumulativeLast()", 0>>, <<"price1CumulativeLast()", 0>>,
     <<"blockTimestampLast()", 0>>, <<"parameterUpdateBlock()", 0>>,
     <<"protocolFeeBps()", 0>>, <<"treasury()", 0>>,
     <<"protocolFeeAccum0()", 0>>, <<"protocolFeeAccum1()", 0>>,
     <<"MAX_FEE_BPS()", 0>>, <<"MAX_PROTOCOL_FEE_BPS()", 0>>, <<"BETA_SCALE()", 0>>,
     <<"paused()", 0>>,
     <<"name()", 0>>, <<"symbol()", 0>>, <<"decimals()", 0>>, <<"totalSupply()", 0>>,
     <<"balanceOf(address)", 1>>, <<"allowance(address,address)", 2>>,
     <<"transfer(address,uint256)", 2>>, <<"approve(address,uint256)", 2>>,
     <<"transferFrom(address,address,uint256)", 3>>,
     <<"permit(address,address,uint256,uint256,uint8,bytes32,bytes32)", 6>>,
     <<"nonces(address)", 1>>, <<"DOMAIN_SEPARATOR()", 0>>, <<"eip712Domain()", 0>>}

TimelockAbi ==
    OwnableAbi \cup
    {<<"setDelay(uint256)", 1>>,
     <<"queueTransaction(address,uint256,string,bytes,uint256)", 5>>,
     <<"cancelTransaction(address,uint256,string,bytes,uint256)", 5>>,
     <<"executeTransaction(address,uint256,string,bytes,uint256)", 5>>,
     <<"MIN_DELAY()", 0>>, <<"MAX_DELAY()", 0>>, <<"GRACE_PERIOD()", 0>>,
     <<"delay()", 0>>, <<"queuedTransactions(bytes32)", 1>>}

AbiOf(target) ==
    CASE target = POOL -> PoolAbi
      [] target = CTRL -> CtrlAbi
      [] target = EM -> EmAbi
      [] target = TIMELOCK -> TimelockAbi
      [] OTHER -> {}

ArityOf(target, signature) ==
    (CHOOSE x \in AbiOf(target) : x[1] = signature)[2]

\* the functions declared payable
IsPayable(target, signature) ==
    target = CTRL /\ signature \in {"registerAgent()", "topUpBond()"}

\* the functions that pull tokens from msg.sender with safeTransferFrom
PullsTokens(target, signature) ==
    \/ target = POOL /\ signature \in {"addLiquidity(uint256,uint256)",
                                       "swap(bool,uint256,uint256)"}
    \/ target = CTRL /\ signature = "depositTokenBond(uint256)"

\* everything a target call can change, with tl for the timelock's storage
\* and err for the way the call came back
World(tl) ==
    [err |-> OK, pool |-> pool, ctrl |-> ctrl, em |-> em, balances |-> balances,
     timelock |-> tl, queuedAt |-> queuedAt, proposedAt |-> proposedAt,
     liquidityEvents |-> liquidityEvents, twapPoint |-> twapPoint]

\* a call that reverts with err leaves nothing behind, one that does not
\* leaves w
CallResult(tl, err, w) ==
    IF err # OK THEN [World(tl) EXCEPT !.err = err] ELSE w

\* what a call of another contract's function leaves: one that reverts gives
\* its value back with everything else, so the timelock's storage and balance
\* are those before the call, tl
CalleeResult(tl, result) ==
    Only({IF r.err # OK THEN [World(tl) EXCEPT !.err = r.err] ELSE r : r \in {result}})

\* a function of the AgentController called by the timelock: the handler's
\* checks with the timelock as msg.sender, and what the handler leaves; value
\* has left the timelock already
CtrlCall(tl, value, signature, data, t) ==
    LET w == World(tl)
        Owned(c) == CallResult(tl, OnlyOwnerError(ctrl, TIMELOCK), [w EXCEPT !.ctrl = c])
    IN  CASE signature = "pause()" -> Owned([ctrl EXCEPT !.paused = TRUE])
          [] signature = "unpause()" -> Owned([ctrl EXCEPT !.paused = FALSE])
          [] signature = "setMinBond(uint256)" -> Owned([ctrl EXCEPT !.minBond = data[1]])
          [] signature = "setCooldown(uint256)" ->
                Owned([ctrl EXCEPT !.cooldownSeconds = data[1]])
          [] signature = "setMaxFeeDelta(uint256)" ->
                Owned([ctrl EXCEPT !.maxFeeDelta = data[1]])
          [] signature = "setMaxBetaDelta(uint256)" ->
                Owned([ctrl EXCEPT !.maxBetaDelta = data[1]])
          [] signature = "setBondToken(address)" ->
                Owned([ctrl EXCEPT !.bondToken = data[1]])
          [] signature = "renounceOwnership()" -> Owned([ctrl EXCEPT !.owner = ZERO])
          [] signature = "transferOwnership(address)" ->
                CallResult(tl, TransferOwnershipError(ctrl, TIMELOCK, data[1]),
                           [w EXCEPT !.ctrl = [ctrl EXCEPT !.owner = data[1]]])
          [] signature = "registerAgent()" ->
                CallResult(tl, RegisterAgentError(ctrl, TIMELOCK, value),
                           [w EXCEPT !.ctrl = RegisterAgentCtrl(ctrl, TIMELOCK, value, t),
                                     !.balances.ctrlNative = @ + value])
          [] signature = "deregisterAgent()" ->
                CallResult(tl, DeregisterAgentError(ctrl, TIMELOCK, balances.ctrlNative),
                           [w EXCEPT !.ctrl = DeregisterAgentCtrl(ctrl, TIMELOCK),
                                     !.balances.ctrlNative =
                                         @ - ctrl.agents[TIMELOCK].bondAmount,
                                     !.timelock.native =
                                         @ + ctrl.agents[TIMELOCK].bondAmount])
          [] signature = "topUpBond()" ->
                CallResult(tl, TopUpBondError(ctrl, TIMELOCK, value),
                           [w EXCEPT !.ctrl = TopUpBondCtrl(ctrl, TIMELOCK, value),
                                     !.balances.ctrlNative = @ + value])
          [] signature = "depositTokenBond(uint256)" ->
                CallResult(tl, DepositTokenBondError(ctrl, TIMELOCK, data[1]),
                           [w EXCEPT !.ctrl = DepositTokenBondCtrl(ctrl, TIMELOCK, data[1]),
                                     !.balances.ctrlToken = @ + data[1]])
          [] signature = "withdrawTokenBond()" ->
                CallResult(tl, WithdrawTokenBondError(ctrl, TIMELOCK, balances.ctrlToken),
                           [w EXCEPT !.ctrl = WithdrawTokenBondCtrl(ctrl, TIMELOCK),
                                     !.balances.ctrlToken =
                                         @ - ctrl.agents[TIMELOCK].tokenBondAmount])
          [] signature = "submitParameterUpdate(uint256,uint256,uint8)" ->
                CallResult(tl, SubmitParameterUpdateError(ctrl, pool, TIMELOCK, data[1],
                                                          data[2], data[3], t),
                           [w EXCEPT !.ctrl = SubmitParameterUpdateCtrl(ctrl, TIMELOCK, t),
                                     !.pool = UpdateParametersPool(pool, data[1], data[2],
                                                                   data[3]),
                                     !.proposedAt[TIMELOCK] = t])
          \* the slashed amount goes to owner(), which is the caller
          [] signature = "slashAgent(address,uint256,string)" ->
                CallResult(tl, IF OnlyOwnerError(ctrl, TIMELOCK) # OK
                               THEN OnlyOwnerError(ctrl, TIMELOCK)
                               ELSE IF data[1] \notin DOMAIN ctrl.agents THEN "NotRegistered"
                               ELSE SlashAgentError(ctrl, TIMELOCK, data[1], data[2],
                                                    balances.ctrlNative),
                           [w EXCEPT !.ctrl = SlashAgentCtrl(ctrl, data[1], data[2]),
                                     !.balances.ctrlNative = @ - data[2],
                                     !.timelock.native = @ + data[2]])
          [] signature = "agentList(uint256)" ->
                CallResult(tl, IF data[1] >= Len(ctrl.agentList) THEN "Panic" ELSE OK, w)
          [] OTHER -> w

\* a function of the EpochManager called by the timelock
EmCall(tl, value, signature, data, t) ==
    LET w == World(tl)
        Owned(e) == CallResult(tl, OnlyOwnerError(em, TIMELOCK), [w EXCEPT !.em = e])
    IN  CASE signature = "setScorer(address)" -> Owned([em EXCEPT !.scorer = data[1]])
          [] signature = "setEpochDuration(uint256)" ->
                Owned([em EXCEPT !.epochDuration = data[1]])
          [] signature = "setEpochReward(uint256)" ->
                Owned([em EXCEPT !.epochRewardAmount = data[1]])
          [] signature = "renounceOwnership()" -> Owned([em EXCEPT !.owner = ZERO])
          [] signature = "transferOwnership(address)" ->
                CallResult(tl, TransferOwnershipError(em, TIMELOCK, data[1]),
                           [w EXCEPT !.em = [em EXCEPT !.owner = data[1]]])
          [] signature = "submitProposal(uint256,uint256,uint8)" ->
                CallResult(tl, SubmitProposalError(em, ctrl, TIMELOCK, data[1], data[3], t),
                           [w EXCEPT !.em = SubmitProposalEm(em, TIMELOCK, data[1], data[2],
                                                             data[3], t)])
          \* an epoch that never started has no proposals
          [] signature = "finalizeEpoch(uint256,address[],uint256[])" ->
                CallResult(tl, IF TIMELOCK # em.scorer THEN "NotScorer"
                               ELSE IF data[1] \notin EpochIds THEN "NoProposals"
                               ELSE FinalizeEpochError(em, pool, TIMELOCK, data[1], data[2],
                                                       data[3]),
                           [w EXCEPT !.em = FinalizeEpochEm(em, data[1], data[2], data[3], t),
                                     !.pool = FinalizeEpochPool(em, pool, data[1], data[2],
                                                                data[3])])
          \* the reward goes to msg.sender
          [] signature = "claimReward(uint256)" ->
                CallResult(tl, IF data[1] \notin EpochIds THEN "EpochNotActive"
                               ELSE ClaimRewardError(em, TIMELOCK, data[1],
                                                     balances.emNative),
                           [w EXCEPT !.em = ClaimRewardEm(em, TIMELOCK, data[1]),
                                     !.balances.emNative = @ - em.epochRewardAmount,
                                     !.timelock.native = @ + em.epochRewardAmount])
          [] signature \in {"epochProposals(uint256,uint256)", "epochAgents(uint256,uint256)"} ->
                CallResult(tl, IF data[1] \notin EpochIds THEN "Panic"
                               ELSE IF signature = "epochAgents(uint256,uint256)"
                                       /\ data[2] >= Len(em.epochAgents[data[1]]) THEN "Panic"
                               ELSE IF signature = "epochProposals(uint256,uint256)"
                                       /\ data[2] >= Len(em.epochProposals[data[1]]) THEN "Panic"
                               ELSE OK, w)
          [] OTHER -> w

\* a function of the EvoPool called by the timelock
PoolCall(tl, value, signature, data, t) ==
    LET w == World(tl)
        Owned(p) == CallResult(tl, OnlyOwnerError(pool, TIMELOCK), [w EXCEPT !.pool = p])
    IN  CASE signature = "setController(address)" -> Owned([pool EXCEPT !.controller = data[1]])
          [] signature = "setEpochManager(address)" ->
                Owned([pool EXCEPT !.epochManager = data[1]])
          [] signature = "setTreasury(address)" -> Owned([pool EXCEPT !.treasury = data[1]])
          [] signature = "pause()" -> Owned([pool EXCEPT !.paused = TRUE])
          [] signature = "unpause()" -> Owned([pool EXCEPT !.paused = FALSE])
          [] signature = "renounceOwnership()" -> Owned([pool EXCEPT !.owner = ZERO])
          [] signature = "setProtocolFee(uint256)" ->
                CallResult(tl, IF OnlyOwnerError(pool, TIMELOCK) # OK
                               THEN OnlyOwnerError(pool, TIMELOCK)
                               ELSE IF data[1] > MAX_PROTOCOL_FEE_BPS THEN "ProtocolFeeTooHigh"
                               ELSE OK,
                           [w EXCEPT !.pool = [pool EXCEPT !.protocolFeeBps = data[1]]])
          [] signature = "transferOwnership(address)" ->
                CallResult(tl, TransferOwnershipError(pool, TIMELOCK, data[1]),
                           [w EXCEPT !.pool = [pool EXCEPT !.owner = data[1]]])
          [] signature = "collectProtocolFees()" ->
                [w EXCEPT !.pool = CollectProtocolFeesPool(pool),
                          !.balances.pool0 = @ - pool.protocolFeeAccum0,
                          !.balances.pool1 = @ - pool.protocolFeeAccum1]
          [] signature = "addLiquidity(uint256,uint256)" ->
                CallResult(tl, AddLiquidityError(pool, TIMELOCK, data[1], data[2]),
                           [w EXCEPT !.pool = AddLiquidityPool(pool, TIMELOCK, data[1],
                                                               data[2], t),
                                     !.balances.pool0 = @ + data[1],
                                     !.balances.pool1 = @ + data[2],
                                     !.liquidityEvents = @ + 1,
                                     !.twapPoint = t])
          [] signature = "removeLiquidity(uint256)" ->
                CallResult(tl, RemoveLiquidityError(pool, TIMELOCK, data[1]),
                           [w EXCEPT !.pool = RemoveLiquidityPool(pool, TIMELOCK, data[1], t),
                                     !.balances.pool0 = @ - RemoveAmount0(pool, data[1]),
                                     !.balances.pool1 = @ - RemoveAmount1(pool, data[1]),
                                     !.liquidityEvents = @ + 1,
                                     !.twapPoint = t])
          [] signature = "swap(bool,uint256,uint256)" ->
                CallResult(tl, SwapError(pool, data[1], data[2], data[3]),
                           [w EXCEPT !.pool = SwapPool(pool, data[1], data[2], t),
                                     !.balances.pool0 =
                                         IF data[1] THEN @ + data[2]
                                         ELSE @ - SwapMath(pool, data[1], data[2]).amountOut,
                                     !.balances.pool1 =
                                         IF data[1]
                                         THEN @ - SwapMath(pool, data[1], data[2]).amountOut
                                         ELSE @ + data[2],
                                     !.twapPoint = t])
          [] signature = "updateParameters(uint256,uint256,uint8,address)" ->
                CallResult(tl, UpdateParametersError(pool, TIMELOCK, data[1], data[3]),
                           [w EXCEPT !.pool = UpdateParametersPool(pool, data[1], data[2],
                                                                   data[3])])
          [] signature = "transfer(address,uint256)" ->
                CallResult(tl, _transferError(pool, TIMELOCK, data[1], data[2]),
                           [w EXCEPT !.pool = _transfer(pool, TIMELOCK, data[1], data[2])])
          [] signature = "approve(address,uint256)" ->
                CallResult(tl, IF data[1] = ZERO THEN "ERC20InvalidSpender" ELSE OK,
                           [w EXCEPT !.pool.allowance[TIMELOCK][data[1]] = data[2]])
          [] signature = "transferFrom(address,address,uint256)" ->
                CallResult(tl, TransferFromError(pool, TIMELOCK, data[1], data[2], data[3]),
                           [w EXCEPT !.pool =
                               _transfer(_spendAllowance(pool, data[1], TIMELOCK, data[3]),
                                         data[1], data[2], data[3])])
          [] signature = "permit(address,address,uint256,uint256,uint8,bytes32,bytes32)" ->
                CallResult(tl, PermitError(pool, data[1], data[2], data[3], data[4],
                                           data[5], data[6], t),
                           [w EXCEPT !.pool.allowance[data[1]][data[2]] = data[3],
                                     !.pool.nonces[data[1]] = @ + 1])
          [] OTHER -> w

\* the calldata executeTransaction builds: the selector of the signature
\* followed by the data, or the data alone when the signature is empty, in
\* which case the data carries its own selector.  A selector is written as
\* the signature it is the hash of.
CallData(signature, data) ==
    IF signature = "" THEN data ELSE <<signature>> \o data

\* whether the calldata selects a function of the target
SelectsFunction(target, callData) ==
    /\ Len(callData) > 0
    /\ ToString(callData[1]) \in {ToString(x[1]) : x \in AbiOf(target)}

\* target.call{value: value}(callData): the value must be covered by the
\* timelock's balance; an address without code accepts every call; a token
\* answers as its own code decides (tokenOk); in a contract of the
\* repository empty calldata reaches receive(), which the pool lacks, and
\* other calldata the function its selector names, if there is one, it
\* takes the value sent, and the rest of the calldata holds its arguments.
\* A function that pulls tokens from its caller succeeds only if the token
\* lets it (tokenOk).  The timelock's own functions are reached in the same
\* way.
RECURSIVE TargetCall(_, _, _, _, _, _, _)
TargetCall(tl, target, value, signature, data, t, tokenOk) ==
    LET callData == CallData(signature, data)
        selector == IF Len(callData) = 0 THEN "" ELSE callData[1]
        args == IF Len(callData) = 0 THEN <<>> ELSE Tail(callData)
        paid == [tl EXCEPT !.native = @ - value]
        w == World(paid)
        err == IF value > tl.native THEN "InsufficientBalance"
               ELSE IF target \in Foreign THEN IF tokenOk THEN OK ELSE "TokenReverted"
               ELSE IF target \notin Contracts THEN OK
               ELSE IF Len(callData) = 0
               THEN IF target # POOL THEN OK ELSE "NoSuchFunction"
               ELSE IF ~SelectsFunction(target, callData) THEN "NoSuchFunction"
               ELSE IF value > 0 /\ ~IsPayable(target, selector) THEN "NotPayable"
               ELSE IF Len(args) < ArityOf(target, selector) THEN "DecodeFailed"
               ELSE IF PullsTokens(target, selector) /\ ~tokenOk THEN "TokenReverted"
               ELSE OK
    IN  IF err # OK THEN [World(tl) EXCEPT !.err = err]
        ELSE IF target \notin Contracts THEN w
        ELSE IF Len(callData) = 0
        THEN CASE target = CTRL -> [w EXCEPT !.balances.ctrlNative = @ + value]
               [] target = EM -> [w EXCEPT !.balances.emNative = @ + value]
               [] OTHER -> [w EXCEPT !.timelock.native = @ + value]
        ELSE CASE target = CTRL ->
                     CalleeResult(tl, CtrlCall(paid, value, selector, args, t))
               [] target = EM -> CalleeResult(tl, EmCall(paid, value, selector, args, t))
               [] target = POOL -> CalleeResult(tl, PoolCall(paid, value, selector, args, t))
               [] selector = "setDelay(uint256)" ->
                     CallResult(tl, SetDelayError(paid, TIMELOCK, args[1]),
                                [w EXCEPT !.timelock.delay = args[1]])
               [] selector = "transferOwnership(address)" ->
                     CallResult(tl, TransferOwnershipError(paid, TIMELOCK, args[1]),
                                [w EXCEPT !.timelock.owner = args[1]])
               [] selector = "renounceOwnership()" ->
                     CallResult(tl, OnlyOwnerError(paid, TIMELOCK),
                                [w EXCEPT !.timelock.owner = ZERO])
               [] selector = "queueTransaction(address,uint256,string,bytes,uint256)" ->
                     CallResult(tl, QueueTransactionError(paid, TIMELOCK, SubSeq(args, 1, 5), t),
                                [w EXCEPT !.timelock.queuedTransactions =
                                              @ \cup {SubSeq(args, 1, 5)},
                                          !.queuedAt =
                                              QueuedAtAfterQueue(@, SubSeq(args, 1, 5), t)])
               [] selector = "cancelTransaction(address,uint256,string,bytes,uint256)" ->
                     CallResult(tl, CancelTransactionError(paid, TIMELOCK, SubSeq(args, 1, 5)),
                                [w EXCEPT !.timelock.queuedTransactions =
                                              @ \ {SubSeq(args, 1, 5)}])
               [] selector = "executeTransaction(address,uint256,string,bytes,uint256)" ->
                     LET h == SubSeq(args, 1, 5)
                         r == TargetCall([paid EXCEPT !.queuedTransactions = @ \ {h}],
                                         h[1], h[2], h[3], h[4], t, tokenOk)
                     IN  CallResult(tl, ExecuteTransactionError(paid, TIMELOCK, h, t, r.err),
                                    [r EXCEPT !.queuedAt = QueuedAtAfterExecute(@, h)])
               [] OTHER -> w

\* a transaction of the timelock: a revert changes nothing but the receipt,
\* and w is what the transaction leaves otherwise, in the timelock and in
\* whatever its target call reached
TimelockTx(op, sender, args, err, w) ==
    /\ lastCall' = Receipt(op, sender, args, err, 0)
    /\ callback' = NoCallback
    /\ timelock' = IF err = OK THEN w.timelock ELSE timelock
    /\ queuedAt' = IF err = OK THEN w.queuedAt ELSE queuedAt
    /\ pool' = IF err = OK THEN w.pool ELSE pool
    /\ ctrl' = IF err = OK THEN w.ctrl ELSE ctrl
    /\ em' = IF err = OK THEN w.em ELSE em
    /\ balances' = IF err = OK THEN w.balances ELSE balances
    /\ proposedAt' = IF err = OK THEN w.proposedAt ELSE proposedAt
    /\ liquidityEvents' = IF err = OK THEN w.liquidityEvents ELSE liquidityEvents
    /\ twapPoint' = IF err = OK THEN w.twapPoint ELSE twapPoint
    /\ UNCHANGED <<now, era, breaker, checks>>

SetDelay(sender, newDelay) ==
    TimelockTx("setDelay", sender, <<newDelay>>, SetDelayError(timelock, sender, newDelay),
               World([timelock EXCEPT !.delay = newDelay]))

\* Ownable.transferOwnership and renounceOwnership of the timelock
TransferOwnershipTimelock(sender, newOwner) ==
    TimelockTx("timelock.transferOwnership", sender, <<newOwner>>,
               TransferOwnershipError(timelock, sender, newOwner),
               World([timelock EXCEPT !.owner = newOwner]))

RenounceOwnershipTimelock(sender) ==
    TimelockTx("timelock.renounceOwnership", sender, <<>>,
               OnlyOwnerError(timelock, sender),
               World([timelock EXCEPT !.owner = ZERO]))

\* receive(): the timelock holds the value its scheduled calls send
ReceiveTimelock(sender, value) ==
    /\ timelock.native + value <= MaxTimelockBalance
    /\ TimelockTx("timelock.receive", sender, <<value>>, OK,
                  World([timelock EXCEPT !.native = @ + value]))

QueueTransaction(sender, target, value, signature, data, eta) ==
    LET txHash == TxHash(target, value, signature, data, eta)
        err == QueueTransactionError(timelock, sender, txHash, now)
    IN  /\ err = OK /\ txHash \notin DOMAIN queuedAt =>
              Cardinality(DOMAIN queuedAt) < MaxQueued /\ now <= MaxQueueTime
        /\ TimelockTx("queueTransaction", sender, txHash, err,
                      [World([timelock EXCEPT !.queuedTransactions = @ \cup {txHash}])
                          EXCEPT !.queuedAt = QueuedAtAfterQueue(@, txHash, now)])

CancelTransaction(sender, target, value, signature, data, eta) ==
    LET txHash == TxHash(target, value, signature, data, eta)
    IN  TimelockTx("cancelTransaction", sender, txHash,
                   CancelTransactionError(timelock, sender, txHash),
                   World([timelock EXCEPT !.queuedTransactions = @ \ {txHash}]))

\* whether the outcome of the call is the token's to decide
TokenDecides(target, signature, data) ==
    \/ target \in Foreign
    \/ /\ SelectsFunction(target, CallData(signature, data))
       /\ PullsTokens(target, CallData(signature, data)[1])

\* executeTransaction leaving the hash queued
ExecuteTransactionKeepingFlag(sender, target, value, signature, data, eta) ==
    LET txHash == TxHash(target, value, signature, data, eta)
    IN  \E tokenOk \in (IF TokenDecides(target, signature, data) THEN BOOLEAN ELSE {TRUE}) :
          LET r == TargetCall(timelock, target, value, signature, data, now, tokenOk)
          IN  TimelockTx("executeTransaction", sender, txHash,
                         ExecuteTransactionError(timelock, sender, txHash, now, r.err),
                         [r EXCEPT !.queuedAt = QueuedAtAfterExecute(@, txHash)])

\* the flag is cleared before the target is called, and a failed call reverts
\* the whole transaction, the cleared flag included
ExecuteTransaction(sender, target, value, signature, data, eta) ==
    LET txHash == TxHash(target, value, signature, data, eta)
        cleared == [timelock EXCEPT !.queuedTransactions = @ \ {txHash}]
    IN  \E tokenOk \in (IF TokenDecides(target, signature, data) THEN BOOLEAN ELSE {TRUE}) :
          LET r == TargetCall(cleared, target, value, signature, data, now, tokenOk)
          IN  TimelockTx("executeTransaction", sender, txHash,
                         ExecuteTransactionError(timelock, sender, txHash, now, r.err),
                         [r EXCEPT !.queuedAt = QueuedAtAfterExecute(@, txHash)])

\* the chain's clock moves to the edges of the execution window of a
\* transaction that has been queued
WarpTargets ==
    UNION {{EtaOf(h), EtaOf(h) + GRACE_PERIOD, EtaOf(h) + GRACE_PERIOD + 1} :
           h \in DOMAIN queuedAt}

Warp(t) ==
    /\ t \in WarpTargets
    /\ t > now
    /\ now' = t
    /\ lastCall' = NoCall
    /\ callback' = NoCallback
    /\ UNCHANGED offPool
    /\ UNCHANGED <<pool, ctrl, em, balances, proposedAt, liquidityEvents, twapPoint>>

\* the calls the owner schedules with either eta: a plain transfer to the
\* epoch manager, a setMinBond of the controller sent as raw calldata under
\* an empty signature, and a getter of the pool
TimelockCalls ==
    {<<EM, MaxTimelockBalance, "", <<>>>>,
     <<CTRL, 0, "", <<"setMinBond(uint256)", InitialMinBond + 1>>>>,
     <<POOL, 0, "parameterUpdateBlock()", <<>>>>}

\* the calls of a timelock that governs the protocol: a plain transfer to an
\* account without code, a setMinBond of the controller, a pause() of the
\* controller sent as raw calldata under an empty signature, a
\* setEpochReward of the epoch manager, an approval of the pool's shares, a
\* getter of the pool, and an approval sent to a token
GovernanceCalls ==
    {<<"a1", MaxTimelockBalance, "", <<>>>>,
     <<CTRL, 0, "setMinBond(uint256)", <<InitialMinBond + 1>>>>,
     <<CTRL, 0, "", <<"pause()">>>>,
     <<EM, 0, "setEpochReward(uint256)", <<InitialEpochReward + 2>>>>,
     <<POOL, 0, "approve(address,uint256)", <<"a1", 1>>>>,
     <<POOL, 0, "parameterUpdateBlock()", <<>>>>,
     <<BOND_TOKEN, 0, "approve(address,uint256)", <<POOL, 1>>>>}

\* the etas tried at a block: one second short of the shortest delay, and
\* the shortest delay (too early once the delay has been raised)
EtaInputs == {now + MIN_DELAY - 1, now + MIN_DELAY}

DelayInputs == {MIN_DELAY - 1, MIN_DELAY, MAX_DELAY, MAX_DELAY + 1}

KnownHashes == DOMAIN queuedAt

NextTimelock ==
    \/ \E t \in WarpTargets : Warp(t)
    \/ TransferOwnershipCtrl(OWNER, TIMELOCK)
    \/ \E x \in {<<OWNER, "a1">>, <<"a1", OWNER>>, <<"a1", ZERO>>} :
          TransferOwnershipTimelock(x[1], x[2])
    \/ RenounceOwnershipTimelock("a1")
    \/ ReceiveTimelock("a1", MaxTimelockBalance)
    \/ \E d \in DelayInputs : SetDelay(OWNER, d)
    \/ SetDelay("a1", MIN_DELAY)
    \/ \E c \in TimelockCalls, eta \in EtaInputs :
          QueueTransaction(OWNER, c[1], c[2], c[3], c[4], eta)
    \/ \E h \in KnownHashes :
          \/ QueueTransaction(OWNER, h[1], h[2], h[3], h[4], h[5])
          \/ CancelTransaction(OWNER, h[1], h[2], h[3], h[4], h[5])
          \/ ExecuteTransaction(OWNER, h[1], h[2], h[3], h[4], h[5])
          \/ ExecuteTransaction("a1", h[1], h[2], h[3], h[4], h[5])

SpecTimelock == InitDeployed /\ [][NextTimelock]_vars

\* The timelock as the owner of the controller and of the epoch manager: its
\* owner schedules the governance calls with the shortest delay, and
\* queues, cancels and executes what has been scheduled.
NextGovernance ==
    \/ \E t \in WarpTargets : Warp(t)
    \/ TransferOwnershipCtrl(OWNER, TIMELOCK)
    \/ TransferOwnershipEm(OWNER, TIMELOCK)
    \/ ReceiveTimelock("a1", MaxTimelockBalance)
    \/ \E c \in GovernanceCalls :
          QueueTransaction(OWNER, c[1], c[2], c[3], c[4], now + MIN_DELAY)
    \/ \E h \in KnownHashes :
          \/ QueueTransaction(OWNER, h[1], h[2], h[3], h[4], h[5])
          \/ CancelTransaction(OWNER, h[1], h[2], h[3], h[4], h[5])
          \/ ExecuteTransaction(OWNER, h[1], h[2], h[3], h[4], h[5])
          \/ ExecuteTransaction("a1", h[1], h[2], h[3], h[4], h[5])

SpecGovernance == InitDeployed /\ [][NextGovernance]_vars

\* the hash a timelock transaction was called with
CalledHash == lastCall'.args

\* C31: a TimeLock transaction executes only while it is queued and
\* eta <= block.timestamp <= eta + GRACE_PERIOD (the owner's attempt on a
\* queued hash reverts with TimelockNotReached before and with
\* TimelockExpired after); queueing requires eta >= block.timestamp + delay,
\* and the delay lies in [MIN_DELAY, MAX_DELAY] in every reachable state, so
\* that every executed transaction was queued at least 24 hours earlier.
C31_ExecutionWindow ==
    /\ [](~DelayOutOfRange(timelock.delay))
    /\ [][lastCall'.op = "setDelay" /\ Caller = timelock.owner /\ DelayOutOfRange(lastCall'.args[1])
             => lastCall'.err = "DelayOutOfRange"]_vars
    /\ [][lastCall'.op = "queueTransaction" /\ lastCall'.err = OK
             => EtaOf(CalledHash) >= now + timelock.delay]_vars
    /\ [][lastCall'.op = "executeTransaction" =>
             /\ lastCall'.err = OK =>
                   /\ CalledHash \in timelock.queuedTransactions
                   /\ EtaOf(CalledHash) <= now
                   /\ now <= EtaOf(CalledHash) + GRACE_PERIOD
                   /\ CalledHash \in DOMAIN queuedAt
                   /\ now - queuedAt[CalledHash].at >= 24 * 3600
             /\ Caller = timelock.owner /\ CalledHash \in timelock.queuedTransactions =>
                   /\ now < EtaOf(CalledHash) => lastCall'.err = "TimelockNotReached"
                   /\ now > EtaOf(CalledHash) + GRACE_PERIOD => lastCall'.err = "TimelockExpired"]_vars

\* a transaction executed in the last second of its window, having been
\* queued exactly MIN_DELAY before its eta: the setMinBond sent as raw
\* calldata under an empty signature, which has changed the controller
C31_Witness ==
    /\ lastCall.op = "executeTransaction"
    /\ lastCall.err = OK
    /\ now = EtaOf(lastCall.args) + GRACE_PERIOD
    /\ queuedAt[lastCall.args].at + MIN_DELAY = EtaOf(lastCall.args)
    /\ lastCall.args \notin timelock.queuedTransactions
    /\ lastCall.args[1] = CTRL
    /\ lastCall.args[3] = ""
    /\ lastCall.args[4] = <<"setMinBond(uint256)", InitialMinBond + 1>>
    /\ ctrl.minBond = InitialMinBond + 1

Queued(h) == h \in timelock.queuedTransactions

\* what C35 says of executeTransaction and cancelTransaction, and of the
\* flag in general: a hash becomes queued only by a successful
\* queueTransaction of it, a queued hash has not been executed since it was
\* queued, a successful execution or cancellation finds the hash queued and
\* un-queues exactly it, the owner's execution or cancellation of a
\* non-queued hash reverts with TransactionNotQueued, and a revert (with
\* ExecutionFailed in particular) leaves the mapping as it was
OneExecutionPerQueueing ==
    /\ [](\A h \in timelock.queuedTransactions :
             h \in DOMAIN queuedAt /\ ~queuedAt[h].executed)
    /\ [][\A h \in timelock'.queuedTransactions \ timelock.queuedTransactions :
             lastCall'.op = "queueTransaction" /\ lastCall'.err = OK /\ CalledHash = h]_vars
    /\ [][lastCall'.op \in {"executeTransaction", "cancelTransaction"} =>
             /\ lastCall'.err = OK =>
                   /\ Queued(CalledHash)
                   /\ timelock'.queuedTransactions = timelock.queuedTransactions \ {CalledHash}
             /\ Caller = timelock.owner /\ ~Queued(CalledHash) => lastCall'.err = "TransactionNotQueued"
             /\ lastCall'.err # OK => timelock' = timelock]_vars
    /\ [][lastCall'.op = "executeTransaction" /\ lastCall'.err = OK
             => ~queuedAt[CalledHash].executed /\ queuedAt'[CalledHash].executed]_vars

\* C35 as stated: each queueing leads to at most one execution, and the
\* owner's queueTransaction of an already-queued hash reverts with
\* TransactionAlreadyQueued.
C35_AsStated ==
    /\ OneExecutionPerQueueing
    /\ [][lastCall'.op = "queueTransaction" /\ Caller = timelock.owner /\ Queued(CalledHash)
             => lastCall'.err = "TransactionAlreadyQueued"]_vars

\* C35, amended: each queueing leads to at most one execution (after a
\* successful execution or cancellation the hash is not queued and the
\* owner's executeTransaction reverts with TransactionNotQueued until it is
\* queued again, cancelling a non-queued hash reverts, ExecutionFailed leaves
\* the hash queued), and the owner's queueTransaction of an already-queued
\* hash always reverts and leaves it queued: with TransactionAlreadyQueued
\* while eta >= block.timestamp + delay, with TimelockNotReached afterwards.
C35_OneExecutionPerQueueing ==
    /\ OneExecutionPerQueueing
    /\ [][lastCall'.op = "queueTransaction" /\ Caller = timelock.owner /\ Queued(CalledHash)
             => /\ lastCall'.err = IF EtaOf(CalledHash) >= now + timelock.delay
                                   THEN "TransactionAlreadyQueued" ELSE "TimelockNotReached"
                /\ timelock' = timelock
                /\ queuedAt' = queuedAt]_vars

\* the owner's execution of a hash that was executed before is refused, a
\* second hash being still queued: the hash of the pause() sent as raw
\* calldata under an empty signature, whose execution has paused the
\* controller
C35_Witness ==
    /\ lastCall.op = "executeTransaction"
    /\ lastCall.sender = timelock.owner
    /\ lastCall.err = "TransactionNotQueued"
    /\ lastCall.args \in DOMAIN queuedAt
    /\ queuedAt[lastCall.args].executed
    /\ timelock.queuedTransactions # {}
    /\ lastCall.args[1] = CTRL
    /\ lastCall.args[3] = ""
    /\ lastCall.args[4] = <<"pause()">>
    /\ ctrl.paused

-----------------------------------------------------------------------------
\* The curve modes compared: one seeded pool, its parameters set through the
\* pool's controller, and trades of sizes x and 2x.

CurveFees == {30, MAX_FEE_BPS}
CurveBetas == {0, InitialCurveBeta, BETA_SCALE, 5 * BETA_SCALE}
CurveModes == {Normal, Defensive, VolatilityAdaptive}
TradeSizes == {10, 20, 250, 500, 1000, 2000}

NextCurve ==
    \/ SetController(OWNER, "a2")
    \/ \E f \in CurveFees, b \in CurveBetas, m \in CurveModes :
          UpdateParameters("a2", f, b, m, "a2")
    \/ \E x \in TradeSizes : Swap("a1", TRUE, x, 0)
    \/ Swap("a1", FALSE, 1000, 0)

SpecCurve == InitSeeded /\ [][NextCurve]_vars

\* amountOut of swap(zeroForOne, amountIn, 0) on pool p, had its curveMode been mode
QuoteOut(p, mode, zeroForOne, amountIn) ==
    SwapMath([p EXCEPT !.curveMode = mode], zeroForOne, amountIn).amountOut

SwapDirection == lastCall'.args[1]
SwapSize == lastCall'.args[2]

\* twice the loss of execution price between a trade of size x and one of
\* size 2x, in units of 1/x: out(x)/x - out(2x)/(2x) = (2 out(x) - out(2x)) / (2x)
PriceDrop(p, mode, zeroForOne, x) ==
    2 * QuoteOut(p, mode, zeroForOne, x) - QuoteOut(p, mode, zeroForOne, 2 * x)

\* C32: with curveBeta > 0, a Defensive trade of size 2x gets a lower
\* amountOut/amountIn than a trade of size x on the same pool, and the drop
\* between the two is larger than the drop between the same two sizes in
\* Normal mode.
C32_DefensiveSlippage ==
    [][(/\ lastCall'.op = "swap" /\ lastCall'.err = OK
        /\ pool.curveMode = Defensive /\ pool.curveBeta > 0
        /\ SwapSize % 2 = 0)
       => /\ lastCall'.ret = QuoteOut(pool, Defensive, SwapDirection, SwapSize)
          /\ PriceDrop(pool, Defensive, SwapDirection, SwapSize \div 2) > 0
          /\ PriceDrop(pool, Defensive, SwapDirection, SwapSize \div 2)
                > PriceDrop(pool, Normal, SwapDirection, SwapSize \div 2)]_vars

\* C33: a swap's amountOut in Defensive or VolatilityAdaptive mode is never
\* greater than the amountOut of the same swap in Normal mode, and with
\* curveBeta = 0 the three modes give the same amountOut.
C33_PenaltyNeverImproves ==
    [][lastCall'.op = "swap" /\ lastCall'.err = OK
       => /\ lastCall'.ret = QuoteOut(pool, pool.curveMode, SwapDirection, SwapSize)
          /\ lastCall'.ret <= QuoteOut(pool, Normal, SwapDirection, SwapSize)
          /\ pool.curveBeta = 0 =>
                \A m \in CurveModes : QuoteOut(pool, m, SwapDirection, SwapSize) = lastCall'.ret]_vars

-----------------------------------------------------------------------------
\* finalizeEpoch and the epoch's proposers

\* the agents that proposed in epoch epochId
Proposers(e, epochId) ==
    {e.epochProposals[epochId][k].agent : k \in DOMAIN e.epochProposals[epochId]}

\* C34: a successful finalizeEpoch scores every proposer of the epoch exactly
\* once: agents[] is a permutation of the proposers, each proposer's
\* totalScore grows by its own score, nobody else's totalScore changes, and
\* epochsWon grows by one for the winner only.
C34_EveryProposerScoredOnce ==
    [][lastCall'.op = "finalizeEpoch" /\ lastCall'.err = OK =>
          LET epochId == lastCall'.args[1]
              agents == lastCall'.args[2]
              scores == lastCall'.args[3]
              proposers == Proposers(em, epochId)
              ScoreOf(a) == scores[CHOOSE i \in DOMAIN agents : agents[i] = a]
          IN  /\ Len(agents) = Cardinality(proposers)
              /\ {agents[i] : i \in DOMAIN agents} = proposers
              /\ \A a \in Addresses :
                    em'.totalScore[a] = em.totalScore[a] + (IF a \in proposers THEN ScoreOf(a) ELSE 0)
              /\ \A a \in Addresses :
                    em'.epochsWon[a] = em.epochsWon[a]
                                       + (IF a = em'.epochs[epochId].winner THEN 1 ELSE 0)]_vars

-----------------------------------------------------------------------------
\* AgentController: recorded bonds against the assets the controller holds

\* the calls by which the timelock bonds itself as an agent: registerAgent
\* and topUpBond with the value it holds, and deregisterAgent, whose refund
\* its receive() accepts
BondCalls ==
    {<<CTRL, MaxTimelockBalance, "registerAgent()", <<>>>>,
     <<CTRL, MaxTimelockBalance, "topUpBond()", <<>>>>,
     <<CTRL, 0, "deregisterAgent()", <<>>>>}

\* The bonds of an agent that is an account and of an agent that is the
\* timelock: the account registers, tops up and deregisters by itself, the
\* timelock through the calls its owner schedules and executes once their
\* eta has come, the controller's owner slashes either, and anyone sends the
\* controller or the timelock a plain transfer.
NextBondTimelock ==
    \/ ReceiveCtrl("a2", 1)
    \/ \E v \in {0, MaxBond - 1} : RegisterAgent("a1", v)
    \/ DeregisterAgent("a1")
    \/ TopUpBond("a1", 1)
    \/ \E x \in {<<OWNER, "a1", 1>>, <<OWNER, "a1", MaxBond>>, <<OWNER, TIMELOCK, 1>>,
                 <<"a2", TIMELOCK, 1>>} :
           SlashAgent(x[1], x[2], x[3])
    \/ ReceiveTimelock("a1", MaxTimelockBalance)
    \/ \E c \in BondCalls :
          QueueTransaction(OWNER, c[1], c[2], c[3], c[4], now + MIN_DELAY)
    \/ \E h \in DOMAIN queuedAt :
          \/ Warp(EtaOf(h))
          \/ ExecuteTransaction(OWNER, h[1], h[2], h[3], h[4], h[5])

SpecBondTimelock == InitDeployed /\ [][NextBondTimelock]_vars

\* the sum of f[a] over the accounts a of S
RECURSIVE SumOver(_, _)
SumOver(f, S) ==
    IF S = {} THEN 0
    ELSE LET a == CHOOSE x \in S : TRUE IN f[a] + SumOver(f, S \ {a})

\* tokenBondAmount summed over every account of the agents mapping
RecordedTokenBonds(c) ==
    SumOver([a \in DOMAIN c.agents |-> c.agents[a].tokenBondAmount], DOMAIN c.agents)

\* bondAmount summed over every account of the agents mapping, the
\* timelock's included
RecordedBonds(c) ==
    SumOver([a \in DOMAIN c.agents |-> c.agents[a].bondAmount], DOMAIN c.agents)

\* C36: an agent's tokenBondAmount decreases only through its own successful
\* withdrawTokenBond while inactive; every other operation, registerAgent
\* by an address that deregistered without withdrawing in particular, leaves
\* it unchanged or increases it, so that the recorded token bonds add up to
\* the tokens deposited minus the tokens withdrawn, which is what the
\* controller holds.
C36_TokenBondOnlyWithdrawn ==
    /\ [][\A a \in Users :
             ctrl'.agents[a].tokenBondAmount < ctrl.agents[a].tokenBondAmount
             => /\ lastCall'.op = "withdrawTokenBond"
                /\ lastCall'.err = OK
                /\ Caller = a
                /\ ~ctrl.agents[a].active]_vars
    /\ [](RecordedTokenBonds(ctrl) = balances.ctrlToken)

\* C39: the controller's native balance is at least the sum of bondAmount
\* over all agents in every reachable state: registerAgent, topUpBond,
\* deregisterAgent and slashAgent move the balance by exactly what they
\* credit to or debit from the recorded bonds, and no step (a plain transfer
\* to the controller included) credits more than it adds, so that
\* deregisterAgent and a valid slashAgent never fail for lack of funds.  The
\* agents include the timelock, which bonds itself through executeTransaction:
\* its executed calls move balance and recorded bonds alike, and its
\* deregisterAgent, executed within the window while it is active, succeeds.
C39_BondsAreBacked ==
    /\ [](balances.ctrlNative >= RecordedBonds(ctrl))
    /\ [][balances'.ctrlNative - balances.ctrlNative
             >= RecordedBonds(ctrl') - RecordedBonds(ctrl)]_vars
    /\ [][lastCall'.op \in {"registerAgent", "topUpBond", "deregisterAgent", "slashAgent"}
             => balances'.ctrlNative - balances.ctrlNative
                  = RecordedBonds(ctrl') - RecordedBonds(ctrl)]_vars
    /\ [][lastCall'.op \in {"deregisterAgent", "slashAgent"}
             => lastCall'.err # "TransferFailed"]_vars
    /\ [][lastCall'.op = "deregisterAgent" /\ CallerInfo.active /\ ~ctrl.paused
             => lastCall'.err = OK]_vars
    /\ [][(/\ lastCall'.op = "slashAgent" /\ Caller = ctrl.owner
           /\ ctrl.agents[SlashTarget].active
           /\ SlashAmount <= ctrl.agents[SlashTarget].bondAmount)
             => lastCall'.err = OK]_vars
    /\ [][lastCall'.op = "executeTransaction" /\ lastCall'.err = OK
             => balances'.ctrlNative - balances.ctrlNative
                  = RecordedBonds(ctrl') - RecordedBonds(ctrl)]_vars
    /\ [][(/\ lastCall'.op = "executeTransaction" /\ Caller = timelock.owner
           /\ CalledHash \in timelock.queuedTransactions
           /\ CalledHash[1] = CTRL /\ CalledHash[3] = "deregisterAgent()"
           /\ EtaOf(CalledHash) <= now /\ now <= EtaOf(CalledHash) + GRACE_PERIOD
           /\ ctrl.agents[TIMELOCK].active /\ ~ctrl.paused)
             => /\ lastCall'.err = OK
                /\ ctrl'.agents[TIMELOCK].bondAmount = 0
                /\ timelock'.native = timelock.native + ctrl.agents[TIMELOCK].bondAmount]_vars

\* the owner has slashed part of an account's bond while the timelock, having
\* registered through executeTransaction, is bonded too, and the controller
\* holds exactly the two bonds that remain
C39_Witness ==
    /\ lastCall.op = "slashAgent"
    /\ lastCall.err = OK
    /\ lastCall.args[2] > 0
    /\ ctrl.agents["a1"].bondAmount > 0
    /\ ctrl.agents[TIMELOCK].bondAmount > 0
    /\ balances.ctrlNative
          = ctrl.agents["a1"].bondAmount + ctrl.agents[TIMELOCK].bondAmount

-----------------------------------------------------------------------------
\* EvoPool: token balances against reserves and accrued protocol fees

\* C37: in every reachable state the pool's token0 balance equals
\* reserve0 + protocolFeeAccum0 and its token1 balance equals
\* reserve1 + protocolFeeAccum1, so that the shares of any holder and the
\* accrued protocol fees can be paid out in full, together; a successful
\* removeLiquidity and every collectProtocolFees pay exactly what they take
\* off the books, and collectProtocolFees changes neither reserve.
C37_PoolIsSolvent ==
    /\ [](/\ balances.pool0 = pool.reserve0 + pool.protocolFeeAccum0
          /\ balances.pool1 = pool.reserve1 + pool.protocolFeeAccum1)
    /\ [](\A u \in Holders :
             pool.balanceOf[u] > 0 =>
                /\ RemoveAmount0(pool, pool.balanceOf[u]) + pool.protocolFeeAccum0 <= balances.pool0
                /\ RemoveAmount1(pool, pool.balanceOf[u]) + pool.protocolFeeAccum1 <= balances.pool1)
    /\ [][lastCall'.op = "removeLiquidity" /\ lastCall'.err = OK =>
             /\ lastCall'.ret[1] = pool.reserve0 - pool'.reserve0
             /\ lastCall'.ret[2] = pool.reserve1 - pool'.reserve1
             /\ balances'.pool0 = balances.pool0 - lastCall'.ret[1]
             /\ balances'.pool1 = balances.pool1 - lastCall'.ret[2]
             /\ balances'.pool0 >= 0 /\ balances'.pool1 >= 0]_vars
    /\ [][lastCall'.op = "collectProtocolFees" =>
             /\ lastCall'.err = OK
             /\ pool'.reserve0 = pool.reserve0
             /\ pool'.reserve1 = pool.reserve1
             /\ pool'.protocolFeeAccum0 = 0
             /\ pool'.protocolFeeAccum1 = 0
             /\ balances'.pool0 = balances.pool0 - pool.protocolFeeAccum0
             /\ balances'.pool1 = balances.pool1 - pool.protocolFeeAccum1]_vars

\* a1 has withdrawn all its shares while protocol fees were accrued and
\* uncollected, and the pool holds exactly the reserves and the fees
C37_Witness ==
    /\ lastCall.op = "removeLiquidity"
    /\ lastCall.err = OK
    /\ lastCall.sender = "a1"
    /\ pool.balanceOf["a1"] = 0
    /\ pool.protocolFeeAccum0 > 0
    /\ balances.pool0 = pool.reserve0 + pool.protocolFeeAccum0
    /\ pool.reserve0 > 0

-----------------------------------------------------------------------------
\* finalizeEpoch called for the current, an earlier and a later epoch id

FinalizeIds == {0, em.currentEpochId - 1, em.currentEpochId, em.currentEpochId + 1} \cap EpochIds

NextFinalize ==
    \/ Tick
    \/ \E a \in Agents : RegisterAgent(a, InitialMinBond)
    \/ SubmitProposal("a1", 100, 6000, Defensive)
    \/ SubmitProposal("a2", 200, 4000, VolatilityAdaptive)
    \/ \E id \in FinalizeIds :
          \/ FinalizeEpoch(SCORER, id, <<"a1">>, <<5000>>)
          \/ FinalizeEpoch(SCORER, id, <<"a1", "a2">>, <<5000, 8000>>)

SpecFinalize == InitDeployed /\ [][NextFinalize]_vars

FinalizedId == lastCall'.args[1]

\* C38: finalizeEpoch succeeds only for epochId = currentEpochId: every
\* earlier epoch is finalized and the scorer's call for it reverts with
\* AlreadyFinalized, every later id (and id 0) has no record and no proposals
\* and the call reverts with NoProposals; a successful finalization advances
\* currentEpochId by exactly one, starts the next epoch in a record that was
\* empty, and changes no other epoch record but the winner, the winning
\* score and the finalized flag of the epoch it closes.
C38_OnlyCurrentEpoch ==
    /\ [](\A i \in EpochIds :
             /\ 1 <= i /\ i < em.currentEpochId => em.epochs[i].finalized
             /\ i > em.currentEpochId \/ i = 0 =>
                   em.epochs[i] = NoEpoch /\ em.epochProposals[i] = <<>>)
    /\ [][lastCall'.op = "finalizeEpoch" =>
             /\ lastCall'.err = OK =>
                   /\ FinalizedId = em.currentEpochId
                   /\ em'.currentEpochId = em.currentEpochId + 1
                   /\ em.epochs[em.currentEpochId + 1] = NoEpoch
                   /\ ~em'.epochs[em'.currentEpochId].finalized
                   /\ em'.epochs[FinalizedId] =
                         [em.epochs[FinalizedId] EXCEPT
                             !.winner = em'.epochs[FinalizedId].winner,
                             !.winnerScore = em'.epochs[FinalizedId].winnerScore,
                             !.finalized = TRUE]
                   /\ \A i \in EpochIds \ {FinalizedId, FinalizedId + 1} :
                         em'.epochs[i] = em.epochs[i]
             /\ Caller = em.scorer /\ 1 <= FinalizedId /\ FinalizedId < em.currentEpochId
                   => lastCall'.err = "AlreadyFinalized"
             /\ Caller = em.scorer /\ (FinalizedId > em.currentEpochId \/ FinalizedId = 0)
                   => lastCall'.err = "NoProposals"]_vars

\* the scorer's call for the epoch it has already finalized is refused,
\* the next epoch being open
C38_Witness ==
    /\ lastCall.op = "finalizeEpoch"
    /\ lastCall.err = "AlreadyFinalized"
    /\ lastCall.args[1] = em.currentEpochId - 1
    /\ em.epochs[lastCall.args[1]].winner # ZERO
    /\ ~em.epochs[em.currentEpochId].finalized

-----------------------------------------------------------------------------
\* The agent's CircuitBreaker (circuitBreaker.ts)

MAX_RESERVE_RATIO == 20
MAX_CONSECUTIVE_FAILS == 3
VOLATILITY_SPIKE_MULTIPLIER == 10
MAX_ALERTS_STORED == 100

\* MAX_PRICE_DEVIATION = 0.5
MAX_PRICE_DEVIATION == DoubleOf(1, 2)

\* bound: calls of check() that run past the tripped test
MaxChecks == 3

\* bound: value of consecutiveFailures
MaxFailures == 3

\* x > 0
DoublePositive(x) == x.mant # <<>>

\* Math.max(r0 / r1, r1 / r0) of r0 = Number(reserve0), r1 = Number(reserve1)
ReserveRatio(reserve0, reserve1) ==
    Only({DoubleMax(DoubleDiv(r0, r1), DoubleDiv(r1, r0)) :
             r0 \in {DoubleOf(reserve0, 1)}, r1 \in {DoubleOf(reserve1, 1)}})

\* Math.abs(currentPrice - lastKnownPrice) / lastKnownPrice
PriceDeviation(currentPrice, lastKnownPrice) ==
    DoubleDiv(DoubleAbsDiff(currentPrice, lastKnownPrice), lastKnownPrice)

\* features.volatility / baselineVolatility
VolatilitySpike(volatility, baseline) == DoubleDiv(volatility, baseline)

\* 0.95 * baselineVolatility + 0.05 * features.volatility
BaselineEMA(baseline, volatility) ==
    DoubleAdd(DoubleMul(DoubleOf(95, 100), baseline), DoubleMul(DoubleOf(5, 100), volatility))

\* trip(reason); of the reason only the condition is kept, not the figure
\* formatted into it
Trip(b, reason) == [b EXCEPT !.tripped = TRUE, !.reason = reason]

\* calls of check(reserve0, reserve1, currentPrice, features), the two numbers
\* written as decimal fractions <<numerator, denominator>>: reserves
\* balanced, at the 20:1 limit, above it and with one side empty; prices
\* none, 1, 1.5 (50% above 1), 1.6, 0.6 and 0.9 (0.3 above 0.6, which the
\* division by 0.6 turns into 0.5000000000000001); volatilities none, 0.05,
\* 0.1 and 0.5 (five, ten and fifty times the first baseline)
CheckInputs ==
    {<<2000, 2000, <<1, 1>>, <<0, 1>>>>,
     <<2000, 2000, <<1, 1>>, <<1, 20>>>>,
     <<2000, 2000, <<1, 1>>, <<1, 10>>>>,
     <<2000, 100, <<3, 2>>, <<0, 1>>>>,
     <<100, 2100, <<1, 1>>, <<0, 1>>>>,
     <<2000, 2000, <<8, 5>>, <<0, 1>>>>,
     <<2000, 2000, <<3, 5>>, <<0, 1>>>>,
     <<2000, 2000, <<9, 10>>, <<0, 1>>>>,
     <<2000, 2000, <<1, 1>>, <<1, 2>>>>,
     <<0, 2000, <<0, 1>>, <<0, 1>>>>,
     <<100, 2100, <<8, 5>>, <<1, 2>>>>}

\* the calls with their numbers as doubles
CheckCalls ==
    {<<c[1], c[2], DoubleOf(c[3][1], c[3][2]), DoubleOf(c[4][1], c[4][2])>> : c \in CheckInputs}

\* MAX_RESERVE_RATIO, MAX_RESERVE_RATIO * 0.5, MAX_PRICE_DEVIATION * 0.5 and
\* VOLATILITY_SPIKE_MULTIPLIER as doubles
ReserveRatioLimit == DoubleOf(MAX_RESERVE_RATIO, 1)

ReserveRatioWarning == DoubleMul(DoubleOf(MAX_RESERVE_RATIO, 1), DoubleOf(1, 2))

PriceDeviationWarning == DoubleMul(MAX_PRICE_DEVIATION, DoubleOf(1, 2))

VolatilitySpikeLimit == DoubleOf(VOLATILITY_SPIKE_MULTIPLIER, 1)

\* the baselines that n calls of CheckCalls can leave
RECURSIVE BaselinesAfter(_)
BaselinesAfter(n) ==
    IF n = 0 THEN {InitBreaker.baselineVolatility}
    ELSE {IF DoublePositive(c[4]) THEN BaselineEMA(b, c[4]) ELSE b :
             b \in BaselinesAfter(n - 1), c \in CheckCalls}

\* The results of the four computations of check() on the numbers of
\* CheckCalls, computed once; on any other number Known computes at the call
ReserveRatios ==
    [x \in {<<c[1], c[2]>> : c \in {d \in CheckCalls : d[1] > 0 /\ d[2] > 0}} |->
        ReserveRatio(x[1], x[2])]

PriceDeviations ==
    [x \in {<<c[3], d[3]>> : c, d \in {e \in CheckCalls : DoublePositive(e[3])}} |->
        PriceDeviation(x[1], x[2])]

VolatilitySpikes ==
    [x \in {<<c[4], b>> : c \in {e \in CheckCalls : DoublePositive(e[4])},
                          b \in BaselinesAfter(MaxChecks - 1)} |->
        VolatilitySpike(x[1], x[2])]

BaselineEMAs ==
    [x \in {<<b, c[4]>> : b \in BaselinesAfter(MaxChecks - 1),
                          c \in {e \in CheckCalls : DoublePositive(e[4])}} |->
        BaselineEMA(x[1], x[2])]

Known(table, key, value) ==
    Only({IF k \in DOMAIN t THEN t[k] ELSE value : t \in {table}, k \in {key}})

\* newAlerts.push of the alerts raised by one condition, and trip(reason)
\* when the condition itself had to be raised and not only its warning; s is
\* the breaker's state with the alerts pushed so far
Alerted(s, alerts, condition, reason) ==
    Only({[state |-> IF a = <<condition>> THEN Trip(s.state, reason) ELSE s.state,
           alerts |-> s.alerts \o a] : a \in {alerts}})

\* ratio > MAX_RESERVE_RATIO, else ratio > MAX_RESERVE_RATIO * 0.5
ReserveAlert(ratio) ==
    Only({IF DoubleGt(r, ReserveRatioLimit) THEN <<"reserve-imbalance">>
          ELSE IF DoubleGt(r, ReserveRatioWarning) THEN <<"reserve-imbalance-warning">>
          ELSE <<>> : r \in {ratio}})

\* 1. Reserve imbalance check
CheckReserves(s, reserve0, reserve1) ==
    IF reserve0 > 0 /\ reserve1 > 0
    THEN Alerted(s, ReserveAlert(Known(ReserveRatios, <<reserve0, reserve1>>,
                                       ReserveRatio(reserve0, reserve1))),
                 "reserve-imbalance", "Reserve imbalance")
    ELSE s

\* deviation > MAX_PRICE_DEVIATION, else deviation > MAX_PRICE_DEVIATION * 0.5
PriceAlert(deviation) ==
    Only({IF DoubleGt(d, MAX_PRICE_DEVIATION) THEN <<"price-deviation">>
          ELSE IF DoubleGt(d, PriceDeviationWarning) THEN <<"price-deviation-warning">>
          ELSE <<>> : d \in {deviation}})

\* the price check proper, when both prices are positive
CheckKnownPrice(s, currentPrice) ==
    Alerted(s, PriceAlert(Known(PriceDeviations, <<currentPrice, s.state.lastKnownPrice>>,
                                PriceDeviation(currentPrice, s.state.lastKnownPrice))),
            "price-deviation", "Price deviation")

\* 2. Price deviation check, and the update of lastKnownPrice
CheckPrice(s, currentPrice) ==
    [(IF DoublePositive(s.state.lastKnownPrice) /\ DoublePositive(currentPrice)
      THEN CheckKnownPrice(s, currentPrice) ELSE s) EXCEPT
        !.state.lastKnownPrice = IF DoublePositive(currentPrice) THEN currentPrice ELSE @]

\* 3. Consecutive failures
CheckFailures(s) ==
    IF s.state.consecutiveFailures >= MAX_CONSECUTIVE_FAILS
    THEN Alerted(s, <<"consecutive-failures">>, "consecutive-failures", "consecutive failures")
    ELSE s

\* spike > VOLATILITY_SPIKE_MULTIPLIER
SpikeAlert(spike) ==
    IF DoubleGt(spike, VolatilitySpikeLimit) THEN <<"volatility-spike">> ELSE <<>>

\* the spike check proper, when baseline and volatility are positive
CheckPositiveVolatility(s, volatility) ==
    Alerted(s, SpikeAlert(Known(VolatilitySpikes, <<volatility, s.state.baselineVolatility>>,
                                VolatilitySpike(volatility, s.state.baselineVolatility))),
            "volatility-spike", "Volatility spike")

\* 5. Volatility spike, and the update of the baseline
CheckVolatility(s, volatility) ==
    [(IF DoublePositive(s.state.baselineVolatility) /\ DoublePositive(volatility)
      THEN CheckPositiveVolatility(s, volatility) ELSE s) EXCEPT
        !.state.baselineVolatility =
            IF DoublePositive(volatility)
            THEN Known(BaselineEMAs, <<@, volatility>>, BaselineEMA(@, volatility))
            ELSE @]

\* addAlert for each new alert (the stored alerts are capped), and the result
RecordAlerts(s) ==
    [state |-> [s.state EXCEPT !.alerts = Min(@ + Len(s.alerts), MAX_ALERTS_STORED)],
     safe |-> ~s.state.tripped, alerts |-> s.alerts]

\* check() past the tripped test, with bondBalance left undefined as in the
\* agent's loop (4. Bond balance check is skipped): the state it leaves and
\* the alerts it returns
CheckConditions(b, reserve0, reserve1, currentPrice, volatility) ==
    Only({RecordAlerts(s5) :
             s5 \in {CheckVolatility(s3, volatility) :
                s3 \in {CheckFailures(s2) :
                   s2 \in {CheckPrice(s1, currentPrice) :
                      s1 \in {CheckReserves([state |-> b, alerts |-> <<>>],
                                            reserve0, reserve1)}}}}})

\* check() without its tripped test
CheckBreakerNoLatch(b, reserve0, reserve1, currentPrice, volatility) ==
    CheckConditions(b, reserve0, reserve1, currentPrice, volatility)

\* check(): a tripped breaker answers at once and stores nothing
CheckBreaker(b, reserve0, reserve1, currentPrice, volatility) ==
    IF b.tripped THEN [state |-> b, safe |-> FALSE, alerts |-> <<"already-tripped">>]
    ELSE CheckConditions(b, reserve0, reserve1, currentPrice, volatility)

\* a call on the breaker object: no contract is touched
BreakerCall(op, args, ret, newBreaker, newChecks) ==
    /\ lastCall' = Receipt(op, "a1", args, OK, ret)
    /\ breaker' = newBreaker
    /\ checks' = newChecks
    /\ callback' = NoCallback
    /\ UNCHANGED <<now, era, pool, ctrl, em, balances, proposedAt, liquidityEvents,
                   twapPoint, timelock, queuedAt>>

Check(reserve0, reserve1, currentPrice, volatility) ==
    /\ ~breaker.tripped => checks < MaxChecks
    /\ \E r \in {CheckBreaker(breaker, reserve0, reserve1, currentPrice, volatility)} :
           BreakerCall("check", <<reserve0, reserve1, currentPrice, volatility>>,
                       [safe |-> r.safe, alerts |-> r.alerts], r.state,
                       IF breaker.tripped THEN checks ELSE checks + 1)

RecordSuccess ==
    BreakerCall("recordSuccess", <<>>, 0, [breaker EXCEPT !.consecutiveFailures = 0], checks)

RecordFailure ==
    /\ breaker.consecutiveFailures < MaxFailures
    /\ BreakerCall("recordFailure", <<>>, 0, [breaker EXCEPT !.consecutiveFailures = @ + 1], checks)

Reset ==
    BreakerCall("reset", <<>>, 0,
                [breaker EXCEPT !.tripped = FALSE, !.reason = "", !.consecutiveFailures = 0],
                checks)

NextBreaker ==
    \/ \E c \in CheckCalls : Check(c[1], c[2], c[3], c[4])
    \/ RecordSuccess
    \/ RecordFailure
    \/ Reset

SpecBreaker == InitDeployed /\ [][NextBreaker]_vars

\* the numbers 0.6, 0.9, 1, 1.5 and 0.1
Price06 == DoubleOf(6, 10)

Price09 == DoubleOf(9, 10)

Price1 == DoubleOf(1, 1)

Price15 == DoubleOf(15, 10)

Volatility01 == DoubleOf(1, 10)

\* the conditions C40 names, on the arguments of a check() and the state it
\* finds, each quantity a JavaScript number: reserve ratio above 20:1, price
\* deviation above 50% of the last known price, three or more consecutive
\* failures, volatility above ten times the baseline
TripConditionMet(b, args) ==
    LET price == args[3]
        volatility == args[4]
        last == b.lastKnownPrice
        base == b.baselineVolatility
    IN  \/ /\ args[1] > 0 /\ args[2] > 0
           /\ DoubleGt(Known(ReserveRatios, <<args[1], args[2]>>, ReserveRatio(args[1], args[2])),
                       ReserveRatioLimit)
        \/ /\ last.mant # <<>> /\ price.mant # <<>>
           /\ DoubleGt(Known(PriceDeviations, <<price, last>>, PriceDeviation(price, last)),
                       MAX_PRICE_DEVIATION)
        \/ b.consecutiveFailures >= 3
        \/ /\ base.mant # <<>> /\ volatility.mant # <<>>
           /\ DoubleGt(Known(VolatilitySpikes, <<volatility, base>>,
                             VolatilitySpike(volatility, base)),
                       VolatilitySpikeLimit)

\* C40: the breaker latches.  A check() on an untripped breaker trips it
\* exactly when one of the four conditions is met and returns safe = FALSE
\* exactly then; while the breaker is tripped every check() returns
\* safe = FALSE, no call changes lastKnownPrice or baselineVolatility, and
\* only reset() un-trips it; after reset() tripped is FALSE and
\* consecutiveFailures is 0.  The conditions are met as double-precision
\* arithmetic finds them: a price of 0.9 after 0.6 trips the breaker, a price
\* of 1.5 after 1 and a volatility of 0.1 on the baseline 0.01 do not.
C40_BreakerLatches ==
    /\ [][lastCall'.op = "check" /\ ~breaker.tripped =>
             /\ breaker'.tripped <=> TripConditionMet(breaker, lastCall'.args)
             /\ lastCall'.ret.safe <=> ~breaker'.tripped]_vars
    /\ [][breaker.tripped =>
             /\ lastCall'.op = "check" => ~lastCall'.ret.safe /\ breaker' = breaker
             /\ breaker'.lastKnownPrice = breaker.lastKnownPrice
             /\ breaker'.baselineVolatility = breaker.baselineVolatility
             /\ ~breaker'.tripped => lastCall'.op = "reset"]_vars
    /\ [][lastCall'.op = "reset" =>
             ~breaker'.tripped /\ breaker'.consecutiveFailures = 0]_vars
    /\ [][/\ lastCall'.op = "check" /\ ~breaker.tripped
          /\ breaker.consecutiveFailures < 3
          /\ breaker.lastKnownPrice = Price06
          /\ lastCall'.args[3] = Price09
          => breaker'.tripped /\ lastCall'.ret.alerts = <<"price-deviation">>]_vars
    /\ [][/\ lastCall'.op = "check" /\ ~breaker.tripped
          /\ breaker.consecutiveFailures < 3
          /\ lastCall'.args[1] > 0 /\ lastCall'.args[2] > 0
          /\ lastCall'.args[1] <= 20 * lastCall'.args[2]
          /\ lastCall'.args[2] <= 20 * lastCall'.args[1]
          /\ \/ /\ breaker.lastKnownPrice = Price1
                /\ lastCall'.args[3] = Price15
                /\ lastCall'.args[4] = DoubleZero
             \/ /\ breaker.lastKnownPrice = lastCall'.args[3]
                /\ breaker.baselineVolatility = InitBreaker.baselineVolatility
                /\ lastCall'.args[4] = Volatility01
          => ~breaker'.tripped]_vars

\* a price of 0.9 after 0.6 has tripped the breaker, and a later check() with
\* another price and a volatility reading has been answered by the tripped
\* breaker, which kept its price and its baseline; of the prices checked only
\* 0.6 lies far enough from 0.9
C40_Witness ==
    /\ breaker.tripped
    /\ breaker.reason = "Price deviation"
    /\ breaker.lastKnownPrice = Price09
    /\ lastCall.op = "check"
    /\ lastCall.ret.alerts = <<"already-tripped">>
    /\ lastCall.args[3] # breaker.lastKnownPrice
    /\ DoublePositive(lastCall.args[4])


====
